---- MODULE Spec2Model ----
(***************************************************************************)
(* Model of the retrieval-augmented pipeline of the questionnaire          *)
(* repository: EvaluationService (services/evaluation_service.py) and      *)
(* QuestionService (services/question_service.py).                         *)
(*                                                                         *)
(* Text is modelled as a sequence of lexemes ("tokens").  Every token      *)
(* stands for a fixed piece of text that the code's string operations      *)
(* never split:                                                            *)
(*   "F"   three backticks            "J"  the letters json (any case)     *)
(*   "B"   one backslash              "s"  the letter s                    *)
(*   "N"   a line break               "_"  one space                       *)
(*   "{" "}" "[" "]" ":" ","          the JSON punctuation                 *)
(*   "w"   a prose word               "null" the JSON literal null         *)
(*   "15" "-3" "7" "2.5" "0"          JSON number literals                 *)
(*   "qscore" "qreasoning" "qok" "q8.0" "qbad"   JSON string literals      *)
(*         (the text in double quotes: "score", "reasoning", "ok", "8.0",  *)
(*          "bad")                                                         *)
(***************************************************************************)
EXTENDS Integers, Sequences, FiniteSets, TLC

\* ------------------------------------------------------------------------
\* Bounds of the model
\* ------------------------------------------------------------------------
MaxPairs == 2

\* lines of one generation output
MaxLines == 2

\* ------------------------------------------------------------------------
\* Text helpers (Python str methods used by _extract_json)
\* ------------------------------------------------------------------------
Whitespace == {"_", "N"}

RECURSIVE LStrip(_)
LStrip(s) ==
    IF s # <<>> /\ Head(s) \in Whitespace THEN LStrip(Tail(s)) ELSE s

RECURSIVE RStrip(_)
RStrip(s) ==
    IF s # <<>> /\ s[Len(s)] \in Whitespace
    THEN RStrip(SubSeq(s, 1, Len(s) - 1)) ELSE s

\* str.strip()
Strip(s) == RStrip(LStrip(s))

\* "x" in s
Contains(s, x) == \E i \in 1..Len(s) : s[i] = x

\* s.find(x): first position of x (1-based; only used when x is in s)
Find(s, x) == CHOOSE i \in 1..Len(s) : s[i] = x /\ \A j \in 1..(i-1) : s[j] # x

\* s.rfind(x): last position of x (1-based; only used when x is in s)
RFind(s, x) == CHOOSE i \in 1..Len(s) : s[i] = x /\ \A j \in (i+1)..Len(s) : s[j] # x

\* ------------------------------------------------------------------------
\* re.sub(r"^```(?:json)?\\s*|```$", "", s, flags=IGNORECASE|MULTILINE)
\* In the raw string literal, \\s* is an escaped backslash followed by s*:
\* the first alternative needs a literal backslash after the fence.
\* ------------------------------------------------------------------------
AtLineStart(s, p) == p = 1 \/ s[p-1] = "N"

\* `$` under MULTILINE at the position before index p
AtLineEnd(s, p) == p > Len(s) \/ s[p] = "N"

RECURSIVE SRun(_, _)
SRun(s, p) == IF p <= Len(s) /\ s[p] = "s" THEN 1 + SRun(s, p + 1) ELSE 0

\* length of the match of the first alternative at p, 0 when it does not match
FenceOpenLen(s, p) ==
    IF ~(AtLineStart(s, p) /\ s[p] = "F") THEN 0
    ELSE IF p + 2 <= Len(s) /\ s[p+1] = "J" /\ s[p+2] = "B"
         THEN 3 + SRun(s, p + 3)
    ELSE IF p + 1 <= Len(s) /\ s[p+1] = "B"
         THEN 2 + SRun(s, p + 2)
    ELSE 0

\* length of the match of the second alternative at p, 0 when it does not match
FenceCloseLen(s, p) == IF s[p] = "F" /\ AtLineEnd(s, p + 1) THEN 1 ELSE 0

FenceMatchLen(s, p) ==
    IF FenceOpenLen(s, p) > 0 THEN FenceOpenLen(s, p) ELSE FenceCloseLen(s, p)

RECURSIVE FenceSubFrom(_, _)
FenceSubFrom(s, p) ==
    IF p > Len(s) THEN <<>>
    ELSE IF FenceMatchLen(s, p) > 0 THEN FenceSubFrom(s, p + FenceMatchLen(s, p))
    ELSE <<s[p]>> \o FenceSubFrom(s, p + 1)

FenceSub(s) == FenceSubFrom(s, 1)

\* s after lines 44-45 of _extract_json
Cleaned(s) == Strip(FenceSub(Strip(s)))

\* variant: no slicing between the braces
SlicedNot(s) == Cleaned(s)

\* s after lines 46-47 of _extract_json: the text handed to json.loads
Sliced(s) ==
    LET c == Cleaned(s) IN
    IF Contains(c, "{") /\ Contains(c, "}")
    THEN SubSeq(c, Find(c, "{"), RFind(c, "}"))
    ELSE c

\* ------------------------------------------------------------------------
\* JSON values.  A value is a record [t, n, s]: t its Python type, n the
\* number it carries in tenths (15 is 150, 2.5 is 25), s the text of a str.
\* Containers nested inside an object keep only their type: the code only
\* ever hands them to float().
\* ------------------------------------------------------------------------
Val(t, n, s) == [t |-> t, n |-> n, s |-> s]

\* Python None (JSON null)
None == Val("none", 0, <<>>)

\* no such key in the dict
Missing == Val("missing", 0, <<>>)

NumberTokens == {"15", "-3", "7", "2.5", "0"}

\* number texts json.loads turns into a float that is not finite: 1e999 is
\* read as inf, the literal NaN as nan
NonFiniteTokens == {"1e999", "NaN"}

\* a float that is inf or nan
NonFinite == Val("nonfinite", 0, <<>>)

StringTokens == {"qscore", "qreasoning", "qok", "q8.0", "qbad"}

\* the number a numeric text denotes, in tenths
TenthsOf(tok) ==
    CASE tok = "15"  -> 150
      [] tok = "-3"  -> -30
      [] tok = "7"   -> 70
      [] tok = "2.5" -> 25
      [] tok = "8.0" -> 80
      [] tok = "0"   -> 0

\* the text between the quotes of a JSON string literal
ContentOf(tok) ==
    CASE tok = "qscore"     -> "score"
      [] tok = "qreasoning" -> "reasoning"
      [] tok = "qok"        -> "ok"
      [] tok = "q8.0"       -> "8.0"
      [] tok = "qbad"       -> "bad"

Keys == {"score", "reasoning", "ok", "8.0", "bad"}

\* a dict: every key mapped to its value, or to Missing
EmptyDict == [key \in Keys |-> Missing]

\* result of a parse attempt: ok, the value, its members when it is an
\* object, and the position after it
ParseFail == [ok |-> FALSE, val |-> None, d |-> EmptyDict, next |-> 0]

ParseOk(v, d, nxt) == [ok |-> TRUE, val |-> v, d |-> d, next |-> nxt]

RECURSIVE SkipWs(_, _)
SkipWs(s, i) ==
    IF i <= Len(s) /\ s[i] \in Whitespace THEN SkipWs(s, i + 1) ELSE i

RECURSIVE ParseValue(_, _)
RECURSIVE ParseItems(_, _, _)
RECURSIVE ParseMembers(_, _, _, _)

\* json.JSONDecoder: one value starting at or after position i
ParseValue(s, i) ==
    LET j == SkipWs(s, i) IN
    IF j > Len(s) THEN ParseFail
    ELSE IF s[j] \in NumberTokens THEN ParseOk(Val("num", TenthsOf(s[j]), <<>>), EmptyDict, j + 1)
    ELSE IF s[j] \in NonFiniteTokens THEN ParseOk(NonFinite, EmptyDict, j + 1)
    ELSE IF s[j] \in StringTokens THEN ParseOk(Val("str", 0, <<ContentOf(s[j])>>), EmptyDict, j + 1)
    ELSE IF s[j] = "null" THEN ParseOk(None, EmptyDict, j + 1)
    ELSE IF s[j] = "[" THEN ParseItems(s, j + 1, TRUE)
    ELSE IF s[j] = "{" THEN ParseMembers(s, j + 1, TRUE, EmptyDict)
    ELSE ParseFail

\* the rest of an array after "[" (first) or after "," (not first)
ParseItems(s, i, first) ==
    LET j == SkipWs(s, i) IN
    IF j > Len(s) THEN ParseFail
    ELSE IF first /\ s[j] = "]" THEN ParseOk(Val("list", 0, <<>>), EmptyDict, j + 1)
    ELSE LET v == ParseValue(s, j)
             k == SkipWs(s, v.next)
         IN  IF ~v.ok \/ k > Len(s) THEN ParseFail
             ELSE IF s[k] = "," THEN ParseItems(s, k + 1, FALSE)
             ELSE IF s[k] = "]" THEN ParseOk(Val("list", 0, <<>>), EmptyDict, k + 1)
             ELSE ParseFail

\* the rest of an object after "{" (first) or after "," (not first);
\* a repeated key keeps its last value
ParseMembers(s, i, first, d) ==
    LET j == SkipWs(s, i) IN
    IF j > Len(s) THEN ParseFail
    ELSE IF first /\ s[j] = "}" THEN ParseOk(Val("dict", 0, <<>>), d, j + 1)
    ELSE IF s[j] \notin StringTokens THEN ParseFail
    ELSE LET c == SkipWs(s, j + 1) IN
         IF c > Len(s) \/ s[c] # ":" THEN ParseFail
         ELSE LET v  == ParseValue(s, c + 1)
                  k  == SkipWs(s, v.next)
                  d2 == [d EXCEPT ![ContentOf(s[j])] = v.val]
              IN  IF ~v.ok \/ k > Len(s) THEN ParseFail
                  ELSE IF s[k] = "," THEN ParseMembers(s, k + 1, FALSE, d2)
                  ELSE IF s[k] = "}" THEN ParseOk(Val("dict", 0, <<>>), d2, k + 1)
                  ELSE ParseFail

\* json.loads(s): one value and nothing but whitespace around it
Loads(s) ==
    LET r == ParseValue(s, 1) IN
    IF r.ok /\ SkipWs(s, r.next) > Len(s) THEN r ELSE ParseFail

\* A Python object as _extract_json returns it: its type, its value when it
\* is a scalar, its members when it is a dict.
Obj(v, d) == [t |-> v.t, n |-> v.n, s |-> v.s, d |-> d]

\* the fallback dict of line 51: {"score": None, "reasoning": s}
FallbackDict(s) ==
    Obj(Val("dict", 0, <<>>),
        [EmptyDict EXCEPT !["score"] = None, !["reasoning"] = Val("str", 0, s)])

\* EvaluationService._extract_json
ExtractJson(raw) ==
    LET s == Sliced(raw)
        r == Loads(s)
    IN  IF r.ok THEN Obj(r.val, r.d) ELSE FallbackDict(s)

\* ------------------------------------------------------------------------
\* Score normalisation (evaluate_answers, lines 75-81)
\* ------------------------------------------------------------------------
NumericTexts == {"15", "-3", "7", "2.5", "8.0", "0"}

\* float(v): [ok, finite, n] with n in tenths; a str is stripped and must be
\* the text of a number, None / list / dict raise TypeError
FloatOf(v) ==
    IF v.t = "num" THEN [ok |-> TRUE, finite |-> TRUE, n |-> v.n]
    ELSE IF v.t = "nonfinite" THEN [ok |-> TRUE, finite |-> FALSE, n |-> 0]
    ELSE IF v.t = "str"
         THEN LET c == Strip(v.s) IN
              IF Len(c) = 1 /\ c[1] \in NumericTexts
              THEN [ok |-> TRUE, finite |-> TRUE, n |-> TenthsOf(c[1])]
              ELSE [ok |-> FALSE, finite |-> TRUE, n |-> 0]
    ELSE [ok |-> FALSE, finite |-> TRUE, n |-> 0]

\* int(round(x)) for x given in tenths: Python 3 rounds halves to even
RoundInt(n) ==
    LET q == n \div 10
        r == n % 10
    IN  IF r < 5 THEN q
        ELSE IF r > 5 THEN q + 1
        ELSE IF q % 2 = 0 THEN q ELSE q + 1

Min(a, b) == IF a < b THEN a ELSE b

Max(a, b) == IF a > b THEN a ELSE b

\* variant: lower bound 0 instead of 1
ClampScoreFromZero(v) == Max(0, Min(10, v))

\* max(1, min(10, score_val))
ClampScore(v) == Max(1, Min(10, v))

\* variant: a missing key reads as None whatever the default
DictGetNone(obj, key, default) ==
    IF obj.d[key] = Missing THEN None ELSE obj.d[key]

\* parsed.get(key, default) on a dict
DictGet(obj, key, default) ==
    IF obj.d[key] = Missing THEN default ELSE obj.d[key]

\* lines 75-81: score_val, None when the try block raised (float() of a
\* value that is no number, int(round()) of inf or nan)
ScoreOf(obj) ==
    IF obj.t # "dict" THEN None
    ELSE LET f == FloatOf(DictGet(obj, "score", Val("num", 0, <<>>))) IN
         IF f.ok /\ f.finite THEN Val("int", ClampScore(RoundInt(f.n)), <<>>) ELSE None

\* ------------------------------------------------------------------------
\* Inputs of evaluate_answers
\* ------------------------------------------------------------------------
Questions == {"q1", "q2"}

Answers == {Val("str", 0, <<>>), Val("str", 0, <<"w">>)}

Pairs == [q : Questions, a : Answers]

RECURSIVE SeqsUpTo(_, _)
SeqsUpTo(S, n) ==
    IF n = 0 THEN {<<>>}
    ELSE LET shorter == SeqsUpTo(S, n - 1) IN
         shorter \cup {Append(x, e) : x \in {y \in shorter : Len(y) = n - 1}, e \in S}

\* what the retriever returns for k = 6: the page contents of the chunks
Retrievals == {<<"c1">>, <<"c1", "c2">>}

\* what the generation service returns for the reference answer
IdealOutputs == {<<"w">>, <<"_", "w", "w", "N">>}

\* grading outputs: commentary, a body, commentary
RawPrefixes ==
    { <<>>, <<"_">>, <<"w", "_">>, <<"F", "J", "N">>, <<"F", "N">>,
      <<"F", "J", "B", "s", "s">>, <<"w", "{", "w", "}", "_">>, <<"w", "}", "_">> }

RawSuffixes ==
    { <<>>, <<"N">>, <<"_", "w">>, <<"N", "F">>, <<"F">>,
      <<"_", "w", "}">>, <<"_", "{", "w">> }

ObjectBodies ==
    { <<"{", "qscore", ":", "7", ",", "_", "qreasoning", ":", "qok", "}">>,
      <<"{", "qscore", ":", "15", ",", "qreasoning", ":", "qok", "}">>,
      <<"{", "qscore", ":", "-3", ",", "qreasoning", ":", "qok", "}">>,
      <<"{", "qscore", ":", "q8.0", ",", "qreasoning", ":", "qok", "}">>,
      <<"{", "qscore", ":", "2.5", ",", "qreasoning", ":", "qok", "}">>,
      <<"{", "qscore", ":", "null", ",", "qreasoning", ":", "qok", "}">>,
      <<"{", "qscore", ":", "1e999", ",", "qreasoning", ":", "qok", "}">>,
      <<"{", "qscore", ":", "NaN", ",", "qreasoning", ":", "qok", "}">>,
      <<"{", "qscore", ":", "qbad", ",", "qreasoning", ":", "qok", "}">>,
      <<"{", "qscore", ":", "[", "7", "]", ",", "qreasoning", ":", "qok", "}">>,
      <<"{", "qscore", ":", "{", "}", ",", "qreasoning", ":", "qok", "}">>,
      <<"{", "N", "qreasoning", ":", "qok", ",", "N", "qscore", ":", "7", "N", "}">>,
      <<"{", "qscore", ":", "7", ",", "qscore", ":", "15", ",", "qreasoning", ":", "qok", "}">>,
      <<"{", "qscore", ":", "7", "}">>,
      <<"{", "qreasoning", ":", "qok", "}">>,
      <<"{", "qscore", ":", "7", ",", "qreasoning", ":", "null", "}">>,
      <<"{", "qscore", ":", "7", ",", "qreasoning", ":", "7", "}">>,
      <<"{", "qok", ":", "7", "}">>,
      <<"{", "_", "}">> }

OtherBodies ==
    { <<"7">>, <<"qok">>, <<"null">>, <<"[", "7", ",", "7", "]">>, <<"[", "]">>,
      <<"w", "_", "w">>, <<>>, <<"{", "{">>, <<"}", "{">>, <<"{", "w", "}">>,
      <<"{", "qscore", ":", "7", ",", "}">>, <<"{", "qscore", "7", "}">>,
      <<"{", "qscore", ":", "7">>, <<"qscore", ":", "7", "}">> }

RawBodies == ObjectBodies \cup OtherBodies

RawOutputs == [pre : RawPrefixes, body : RawBodies, post : RawSuffixes]

\* the text of a grading output
RawText(r) == r.pre \o r.body \o r.post

NoRaw == [pre |-> <<>>, body |-> <<>>, post |-> <<>>]

NoObj == Obj(None, EmptyDict)

\* ------------------------------------------------------------------------
\* EvaluationService.evaluate_answers as a state machine.  The blocking
\* calls (retrieval, reference answer, grading) are its steps.
\* ------------------------------------------------------------------------
VARIABLES
    qas,        \* the argument: the list of (question, answer) pairs
    idx,        \* position of the for loop in qas
    results,    \* the list being built
    epc,        \* "idle", "retrieve", "ideal", "grade", "done", "raised"
    eerr,       \* what was raised: "none", "retrieval", "generation", "attribute"
    context,    \* local context of the current pair
    ideal,      \* local ideal of the current pair
    raw,        \* local raw of the current pair
    parsed,     \* local parsed of the current pair
    calls       \* the requests sent to the retriever and the generation service

evars == <<qas, idx, results, epc, eerr, context, ideal, raw, parsed, calls>>

\* state of QuestionService.generate_questions
VARIABLES
    gn,         \* n after line 100
    gk,         \* the argument k
    gpc,        \* "idle", "retrieving", "prompting", "generating", "parsing",
                \* "fb_retrieving", "fb_generating", "returned", "raised"
    gerr,       \* what was raised to the caller: "none", "value", "retrieval"
    greq,       \* the request in flight
    gcontext,   \* local context
    graw,       \* the output of the last answered generation request
    gpath,      \* where the return value came from: "none", "main",
                \* "fallback", "fallback_placeholder", "ultimate_placeholder"
    gresult,    \* the returned list
    gcalls,     \* the operations requested so far, in order
    gdocs,      \* the retrieved docs and the random_k they were sampled with
    gn0         \* the argument n

gvars == <<gn, gk, gpc, gerr, greq, gcontext, graw, gpath, gresult, gcalls, gdocs, gn0>>

\* state of the calls of _parse_questions and _ensure_question_diversity
\* on their own
VARIABLES
    praw,        \* the argument of _parse_questions
    pquestions,  \* the list _parse_questions returns
    dquestions,  \* the argument of _ensure_question_diversity
    dunique,     \* the list _ensure_question_diversity returns
    fpc          \* "ready", "parsed", "deduped"

fvars == <<praw, pquestions, dquestions, dunique, fpc>>

\* state of PDFService: the directory of the collections and the calls of
\* index_pdf, list_collections and load_vectorstore
VARIABLES
    db_dir,  \* collection name -> its directory under db_dir: [dir, faiss, pkl]
    ipc,     \* position of each index_pdf call: "idle", "loading", "built",
             \* "dir_made", "faiss_written", "returned", "raised"
    ireq,    \* the arguments of each index_pdf call and the error it raised
    isnap,   \* the directory of the call's collection when the call started
    lout     \* the last list_collections or load_vectorstore call and its result

svars == <<db_dir, ipc, ireq, isnap, lout>>

\* state of the secured API (security.py, secure_main.py)
VARIABLES
    api_keys,  \* APIKeyManager.api_keys: key -> [name, usage_count, origin]
    usage,     \* UsageTracker.usage: the names with tracked requests
    admins,    \* the keys whose holders were given admin privileges; no line
               \* of security.py or secure_main.py reads it
    aresp      \* the last response of the secured API

avars == <<api_keys, usage, admins, aresp>>

\* two calls of evaluate_answers on one service
VARIABLES
    svc,   \* the generation service as a function of the grading request:
           \* the answer text it carries -> what the service does
    prev   \* the first call once the second has begun: its arguments, its
           \* requests, its result list and how it ended

tvars == <<svc, prev>>

vars == <<evars, gvars, fvars, svars, avars, tvars>>

\* what the steps of one component leave alone
outsideEval == <<gvars, fvars, svars, avars, tvars>>

outsideGen == <<evars, fvars, svars, avars, tvars>>

outsideFun == <<evars, gvars, svars, avars, tvars>>

outsideStore == <<evars, gvars, fvars, avars, tvars>>

outsideApi == <<evars, gvars, fvars, svars, tvars>>

\* search_kwargs={"k": 6} of line 56
RetrieverK == 6

\* a request to the retriever (with its k) or to the generation service
Request(op, q, a, ctx) ==
    [op |-> op, q |-> q, a |-> a, ctx |-> ctx,
     k |-> IF op = "retrieve" THEN RetrieverK ELSE 0]

\* a or ""
OrEmpty(a) == IF a = None \/ a.s = <<>> THEN Val("str", 0, <<>>) ELSE a

\* results.append({...}), lines 83-89
MakeResult(q, a, idl, score, reasoning) ==
    [question |-> q, answer |-> a, ideal_answer |-> idl,
     score |-> score, reasoning |-> reasoning]

\* variant: the new result is put in front
ResultsPrepend(rs, r) == <<r>> \o rs

ResultsAppend(rs, r) == Append(rs, r)

\* parsed.get("reasoning") of line 88: raises AttributeError unless parsed is a dict
ReasoningRaises(obj) == obj.t # "dict"

ReasoningOf(obj) == DictGet(obj, "reasoning", None)

\* variant: the pairs after the first reuse the context of the first
AfterPairReusingContext(pairs, i) ==
    IF i >= Len(pairs) THEN "done" ELSE IF i = 0 THEN "retrieve" ELSE "ideal"

\* position of the loop after the pair at i: the next pair or the return
AfterPair(pairs, i) == IF i >= Len(pairs) THEN "done" ELSE "retrieve"

EvalInit ==
    /\ qas = <<>>
    /\ idx = 1
    /\ results = <<>>
    /\ epc = "idle"
    /\ eerr = "none"
    /\ context = <<>>
    /\ ideal = <<>>
    /\ raw = NoRaw
    /\ parsed = NoObj
    /\ calls = <<>>

\* the call evaluate_answers(vectorstore, pairs): line 55 and the loop head
EvalCall(pairs) ==
    /\ epc = "idle"
    /\ qas' = pairs
    /\ idx' = 1
    /\ results' = <<>>
    /\ epc' = AfterPair(pairs, 0)
    /\ UNCHANGED <<eerr, context, ideal, raw, parsed, calls>>
    /\ UNCHANGED outsideEval

\* lines 57-59: the retriever answers with docs
Retrieve(docs) ==
    /\ epc = "retrieve"
    /\ context' = docs
    /\ calls' = Append(calls, Request("retrieve", qas[idx].q, None, <<>>))
    /\ epc' = "ideal"
    /\ UNCHANGED <<qas, idx, results, eerr, ideal, raw, parsed>>
    /\ UNCHANGED outsideEval

\* lines 57-58: the retriever raises
RetrieveFails ==
    /\ epc = "retrieve"
    /\ calls' = Append(calls, Request("retrieve", qas[idx].q, None, <<>>))
    /\ epc' = "raised"
    /\ eerr' = "retrieval"
    /\ UNCHANGED <<qas, idx, results, context, ideal, raw, parsed>>
    /\ UNCHANGED outsideEval

\* lines 62-65: the generation service answers with out
IdealAnswer(out) ==
    /\ epc = "ideal"
    /\ ideal' = Strip(out)
    /\ calls' = Append(calls, Request("ideal", qas[idx].q, None, context))
    /\ epc' = "grade"
    /\ UNCHANGED <<qas, idx, results, eerr, context, raw, parsed>>
    /\ UNCHANGED outsideEval

\* lines 62-65: the generation service raises
IdealAnswerFails ==
    /\ epc = "ideal"
    /\ calls' = Append(calls, Request("ideal", qas[idx].q, None, context))
    /\ epc' = "raised"
    /\ eerr' = "generation"
    /\ UNCHANGED <<qas, idx, results, context, ideal, raw, parsed>>
    /\ UNCHANGED outsideEval

\* lines 68-89: the generation service answers the grading request with r
Grade(r) ==
    /\ epc = "grade"
    /\ raw' = r
    /\ parsed' = ExtractJson(RawText(r))
    /\ calls' = Append(calls, Request("grade", qas[idx].q, OrEmpty(qas[idx].a), context))
    /\ IF ReasoningRaises(parsed')
       THEN /\ epc' = "raised"
            /\ eerr' = "attribute"
            /\ UNCHANGED <<results, idx>>
       ELSE /\ results' = ResultsAppend(results,
                              MakeResult(qas[idx].q, qas[idx].a, ideal,
                                         ScoreOf(parsed'), ReasoningOf(parsed')))
            /\ epc' = AfterPair(qas, idx)
            /\ idx' = idx + 1
            /\ UNCHANGED eerr
    /\ UNCHANGED <<qas, context, ideal>>
    /\ UNCHANGED outsideEval

\* lines 68-72: the generation service raises
GradeFails ==
    /\ epc = "grade"
    /\ calls' = Append(calls, Request("grade", qas[idx].q, OrEmpty(qas[idx].a), context))
    /\ epc' = "raised"
    /\ eerr' = "generation"
    /\ UNCHANGED <<qas, idx, results, context, ideal, raw, parsed>>
    /\ UNCHANGED outsideEval

\* grading outputs used when whole batches are explored
BatchPrefixes == { <<>>, <<"F", "J", "N">> }

BatchBodies ==
    { <<"{", "qscore", ":", "7", ",", "_", "qreasoning", ":", "qok", "}">>,
      <<"{", "qscore", ":", "15", ",", "qreasoning", ":", "qok", "}">>,
      <<"w", "_", "w">>,
      <<"7">> }

BatchOutputs == [pre : BatchPrefixes, body : BatchBodies, post : {<<>>}]

\* batches of up to MaxPairs pairs, a few grading outputs
EvalNext ==
    \/ \E pairs \in SeqsUpTo(Pairs, MaxPairs) : EvalCall(pairs)
    \/ \E docs \in Retrievals : Retrieve(docs)
    \/ RetrieveFails
    \/ \E out \in IdealOutputs : IdealAnswer(out)
    \/ IdealAnswerFails
    \/ \E r \in BatchOutputs : Grade(r)
    \/ GradeFails


\* ------------------------------------------------------------------------
\* Two calls of evaluate_answers on the same collection and the same
\* services, the second with other answers to the same questions.  The
\* retriever and the generation service are deterministic: what they
\* return is a function of the request.
\* ------------------------------------------------------------------------

\* the answer texts a grading request can carry
AnswerTexts == {<<>>, <<"w">>}

\* what the generation service does with a grading request: it returns a
\* JSON object, it returns a JSON number, it raises
GradeOutcomes == {"object", "number", "raise"}

Services == [AnswerTexts -> GradeOutcomes]

NoRun == [qas |-> <<>>, calls |-> <<>>, results |-> <<>>, epc |-> "none"]

TwinOff ==
    /\ svc = [a \in AnswerTexts |-> "object"]
    /\ prev = NoRun

\* the chunks the retriever returns for a query
DocsFor(q) == IF q = "q1" THEN <<"c1">> ELSE <<"c1", "c2">>

\* the reference answer the service returns for a question and a context
IdealFor(q, ctx) == IF ctx = <<"c1">> THEN <<"w">> ELSE <<"_", "w", "w", "N">>

\* the text of a grading output
GradeOutput(outcome) ==
    IF outcome = "object"
    THEN [pre |-> <<>>,
          body |-> <<"{", "qscore", ":", "7", ",", "qreasoning", ":", "qok", "}">>,
          post |-> <<>>]
    ELSE [pre |-> <<>>, body |-> <<"7">>, post |-> <<>>]

\* answers of the second call: a str or None
TwinAnswers == Answers \cup {None}

\* the call has ended, by returning or by raising
Ended == epc \in {"done", "raised"}

\* the second call evaluate_answers(vectorstore, pairs): the questions of
\* the first call with any answers
EvalCallAgain ==
    /\ Ended
    /\ prev = NoRun
    /\ \E ans \in [1..Len(qas) -> TwinAnswers] :
           qas' = [i \in 1..Len(qas) |-> [q |-> qas[i].q, a |-> ans[i]]]
    /\ prev' = [qas |-> qas, calls |-> calls, results |-> results, epc |-> epc]
    /\ idx' = 1
    /\ results' = <<>>
    /\ calls' = <<>>
    /\ eerr' = "none"
    /\ epc' = AfterPair(qas, 0)
    /\ UNCHANGED <<context, ideal, raw, parsed, svc>>
    /\ UNCHANGED <<gvars, fvars, svars, avars>>

TwinRetrieve == epc = "retrieve" /\ Retrieve(DocsFor(qas[idx].q))

TwinIdealAnswer == epc = "ideal" /\ IdealAnswer(IdealFor(qas[idx].q, context))

TwinGrade ==
    /\ epc = "grade"
    /\ svc[OrEmpty(qas[idx].a).s] # "raise"
    /\ Grade(GradeOutput(svc[OrEmpty(qas[idx].a).s]))

TwinGradeFails ==
    /\ epc = "grade"
    /\ svc[OrEmpty(qas[idx].a).s] = "raise"
    /\ GradeFails

TwinNext ==
    \/ \E pairs \in SeqsUpTo(Pairs, MaxPairs) : EvalCall(pairs)
    \/ EvalCallAgain
    \/ TwinRetrieve
    \/ TwinIdealAnswer
    \/ TwinGrade
    \/ TwinGradeFails

\* one pair, every grading output
OnePair == [q |-> "q1", a |-> Val("str", 0, <<"w">>)]

GradeNext ==
    \/ EvalCall(<<OnePair>>)
    \/ Retrieve(<<"c1">>)
    \/ IdealAnswer(<<"w">>)
    \/ \E r \in RawOutputs : Grade(r)


\* ------------------------------------------------------------------------
\* Properties of evaluate_answers
\* ------------------------------------------------------------------------

\* the last step was a grading request that the service answered
Graded ==
    /\ calls # <<>>
    /\ calls[Len(calls)].op = "grade"
    /\ eerr # "generation"

\* the text _extract_json handed to json.loads did not parse
ParseFailed == ~Loads(Sliced(RawText(raw))).ok

\* the object a JSON text denotes
ObjectOf(s) == Obj(Loads(s).val, Loads(s).d)

\* C3: a retrieval or generation-service error raised while processing one
\* pair does not abort the batch (the call does not end by raising it).
PairFailureKeepsBatch ==
    ~(epc = "raised" /\ eerr \in {"retrieval", "generation"})

\* C4: when evaluate_answers returns, the result list has the length of the
\* input list and result i carries question i and answer i.
ResultsMatchPairs ==
    epc = "done" =>
        /\ Len(results) = Len(qas)
        /\ \A i \in 1..Len(qas) :
              /\ results[i].question = qas[i].q
              /\ results[i].answer = qas[i].a

ResultsMatchPairsWitness ==
    /\ epc = "done"
    /\ Len(qas) = 2
    /\ qas[1].q # qas[2].q
    /\ qas[1].a.s = <<>>
    /\ qas[2].a.s # <<>>

\* C5: every stored score is absent or an integer in 1..10; 15 is stored as
\* 10, -3 as 1, "8.0" as 8, 2.5 as 2, 7 as 7; a score that cannot be coerced
\* (null, a non-numeric string, a list, an object) and an output that did not
\* parse are stored with an absent score.
ScoreContract ==
    /\ \A i \in 1..Len(results) :
          \/ results[i].score = None
          \/ results[i].score.t = "int" /\ results[i].score.n \in 1..10
    /\ (Graded /\ epc = "done") =>
          LET sc == results[Len(results)].score
              ps == parsed.d["score"]
          IN  /\ ParseFailed => sc = None
              /\ ps = Val("num", 150, <<>>) => sc = Val("int", 10, <<>>)
              /\ ps = Val("num", -30, <<>>) => sc = Val("int", 1, <<>>)
              /\ ps = Val("str", 0, <<"8.0">>) => sc = Val("int", 8, <<>>)
              /\ ps = Val("num", 70, <<>>) => sc = Val("int", 7, <<>>)
              /\ ps = Val("num", 25, <<>>) => sc = Val("int", 2, <<>>)
              /\ ps.t \in {"none", "list", "dict"} => sc = None
              /\ ps = Val("str", 0, <<"bad">>) => sc = None

ScoreContractWitness ==
    /\ Graded
    /\ epc = "done"
    /\ parsed.d["score"] = Val("num", -30, <<>>)
    /\ results[1].score = Val("int", 1, <<>>)

\* C6: no grading output makes evaluate_answers raise; an output from which
\* no JSON object is extracted becomes a result with an absent score and a
\* text rationale.
MalformedOutputDowngraded ==
    Graded =>
        /\ epc # "raised"
        /\ (~Loads(Sliced(RawText(raw))).ok \/ parsed.t # "dict") =>
              /\ results[Len(results)].score = None
              /\ results[Len(results)].reasoning.t = "str"

\* C7: every result has a rationale that is a string.
RationalePopulated ==
    \A i \in 1..Len(results) : results[i].reasoning.t = "str"

\* C8: on a parse failure _extract_json returns a null score and, as the
\* reasoning, the full cleaned text.
ParseFailureKeepsFullText ==
    (Graded /\ ParseFailed) => parsed = FallbackDict(Cleaned(RawText(raw)))

\* C9 as stated: a JSON object with arbitrary commentary before and after it
\* is returned as that object.
ObjectWithCommentaryRecovered ==
    (Graded /\ raw.body \in ObjectBodies) => parsed = ObjectOf(raw.body)

\* C9 amended: a JSON object with commentary that has no "{" before it and
\* no "}" after it is returned as that object.
ObjectWithBraceFreeCommentaryRecovered ==
    (Graded /\ raw.body \in ObjectBodies
            /\ ~Contains(raw.pre, "{") /\ ~Contains(raw.post, "}"))
        => parsed = ObjectOf(raw.body)

ObjectWithBraceFreeCommentaryWitness ==
    /\ Graded
    /\ raw.pre = <<"w", "_">>
    /\ raw.post = <<"_", "w">>
    /\ raw.body \in ObjectBodies
    /\ parsed.t = "dict"
    /\ parsed.d["score"] = Val("num", 70, <<>>)
    /\ parsed.d["reasoning"] = Val("str", 0, <<"ok">>)

\* the output is a body between an opening fence (with or without the
\* language tag) and a closing fence
Fenced(r) == r.pre \in {<<"F", "J", "N">>, <<"F", "N">>} /\ r.post = <<"N", "F">>

\* C10: for a fenced output the text that is parsed, and the rationale kept
\* when it does not parse, hold no fence marker, and a fenced JSON object is
\* returned as that object.
FenceMarkersStripped ==
    (Graded /\ Fenced(raw)) =>
        /\ ~Contains(Sliced(RawText(raw)), "F")
        /\ ParseFailed => ~Contains(parsed.d["reasoning"].s, "F")
        /\ raw.body \in ObjectBodies => parsed = ObjectOf(raw.body)

\* ------------------------------------------------------------------------
\* QuestionService: text of the generation output.  A line is a sequence of
\* tokens: enumeration markers ("1." ... "10.", "11.", "1)" ... "10)", "-",
\* "*", the bullet, and the three-character sequence the source file holds
\* in place of the bullet), "_" for a space, "?" and words.
\* ------------------------------------------------------------------------
\* the prefixes of _parse_questions, in the order of the list of lines 181-182
StripPrefixes ==
    <<"1.", "2.", "3.", "4.", "5.", "6.", "7.", "8.", "9.", "10.",
      "mojibake-bullet", "-", "*",
      "1)", "2)", "3)", "4)", "5)", "6)", "7)", "8)", "9)", "10)">>

\* len() of the text of one token
Width(tok) ==
    CASE tok \in {"_", "?", "x", "y", "-", "*", "bullet"} -> 1
      [] tok \in {"is", "1.", "2.", "1)"} -> 2
      [] tok \in {"Why", "why", "the", "10.", "11.", "10)", "mojibake-bullet"} -> 3
      [] tok \in {"What", "what"} -> 4
      [] tok \in {"Explain", "explain", "process"} -> 7
      [] tok \in {"Describe", "describe"} -> 8
      [] OTHER -> 40

RECURSIVE TextLen(_)
TextLen(s) == IF s = <<>> THEN 0 ELSE Width(Head(s)) + TextLen(Tail(s))

\* str.lower() of one token
LowerTok(tok) ==
    CASE tok = "What" -> "what"
      [] tok = "Why" -> "why"
      [] tok = "Explain" -> "explain"
      [] tok = "Describe" -> "describe"
      [] OTHER -> tok

Lower(s) == [i \in 1..Len(s) |-> LowerTok(s[i])]

\* str.split('\n'): the pieces between the line breaks
RECURSIVE SplitLines(_)
SplitLines(s) ==
    IF ~Contains(s, "N") THEN <<s>>
    ELSE <<SubSeq(s, 1, Find(s, "N") - 1)>>
         \o SplitLines(SubSeq(s, Find(s, "N") + 1, Len(s)))

\* the first prefix of StripPrefixes the line starts with, 0 when none
FirstPrefix(line) ==
    IF line = <<>> \/ \A i \in 1..Len(StripPrefixes) : StripPrefixes[i] # line[1]
    THEN 0
    ELSE CHOOSE i \in 1..Len(StripPrefixes) : StripPrefixes[i] = line[1]

\* lines 180-185: the line without its first enumeration marker
RemoveNumbering(line) ==
    IF FirstPrefix(line) = 0 THEN line ELSE Strip(Tail(line))

EndsWithQ(s) == s # <<>> /\ s[Len(s)] = "?"

\* line 188
IsQuestion(cleaned) == cleaned # <<>> /\ (EndsWithQ(cleaned) \/ TextLen(cleaned) > 10)

RECURSIVE ParseLines(_)
ParseLines(lines) ==
    IF lines = <<>> THEN <<>>
    ELSE LET line    == Strip(Head(lines))
             cleaned == RemoveNumbering(line)
         IN  IF line # <<>> /\ IsQuestion(cleaned)
             THEN <<cleaned>> \o ParseLines(Tail(lines))
             ELSE ParseLines(Tail(lines))

\* QuestionService._parse_questions
ParseQuestions(raw_output) == ParseLines(SplitLines(raw_output))

\* str.split(): the set of whitespace-separated words
RECURSIVE WordSet(_)
WordSet(s) ==
    LET t == LStrip(s) IN
    IF t = <<>> THEN {}
    ELSE LET ends == {i \in 1..Len(t) : t[i] \in Whitespace}
             stop == IF ends = {} THEN Len(t) + 1
                     ELSE CHOOSE i \in ends : \A j \in ends : i <= j
         IN  {SubSeq(t, 1, stop - 1)} \cup WordSet(SubSeq(t, stop, Len(t)))

\* variant: a similarity of exactly the threshold counts as similar
AreQuestionsSimilarOrEqual(q1, q2) ==
    LET words1 == WordSet(q1)
        words2 == WordSet(q2)
    IN  IF words1 = {} \/ words2 = {} THEN FALSE
        ELSE 10 * Cardinality(words1 \cap words2) >= 7 * Cardinality(words1 \cup words2)

\* QuestionService._are_questions_similar with threshold 0.7:
\* intersection / union > 0.7, compared without rounding
AreQuestionsSimilar(q1, q2) ==
    LET words1 == WordSet(q1)
        words2 == WordSet(q2)
    IN  IF words1 = {} \/ words2 = {} THEN FALSE
        ELSE 10 * Cardinality(words1 \cap words2) > 7 * Cardinality(words1 \cup words2)

RECURSIVE DiversifyAdjacent(_, _)
\* variant of the loop: a question is compared with the last one kept only
DiversifyAdjacent(questions, unique) ==
    IF questions = <<>> THEN unique
    ELSE LET q_lower == Strip(Lower(Head(questions)))
             is_similar == /\ unique # <<>>
                           /\ AreQuestionsSimilar(q_lower, Lower(Strip(Lower(unique[Len(unique)]))))
         IN  IF is_similar THEN DiversifyAdjacent(Tail(questions), unique)
             ELSE DiversifyAdjacent(Tail(questions), Append(unique, Head(questions)))

RECURSIVE Diversify(_, _)
\* the loop of lines 202-212: unique the questions kept so far
Diversify(questions, unique) ==
    IF questions = <<>> THEN unique
    ELSE LET q_lower == Strip(Lower(Head(questions)))
             is_similar == \E i \in 1..Len(unique) :
                               AreQuestionsSimilar(q_lower, Lower(Strip(Lower(unique[i]))))
         IN  IF is_similar THEN Diversify(Tail(questions), unique)
             ELSE Diversify(Tail(questions), Append(unique, Head(questions)))

\* variant: only neighbouring questions are compared
EnsureQuestionDiversityAdjacent(questions) == DiversifyAdjacent(questions, <<>>)

\* QuestionService._ensure_question_diversity
EnsureQuestionDiversity(questions) == Diversify(questions, <<>>)

\* questions[:n]
FirstN(s, n) == SubSeq(s, 1, Min(n, Len(s)))

\* ------------------------------------------------------------------------
\* QuestionService.generate_questions as a state machine.  Its steps end
\* at the blocking calls: the retrieval and the generation request.
\* ------------------------------------------------------------------------

\* pool sizes: query_variations, question_prompts, focus_areas
NumQueries == 12

NumTemplates == 4

NumFocusAreas == 10

SearchTypes == {"similarity", "mmr", "similarity_score_threshold"}

\* random.uniform(0.3, 0.7), in hundredths
ThresholdSamples == {30, 50, 70}

\* no score_threshold key in search_kwargs
NoThreshold == -1

\* the arguments n and k of the calls explored
NInputs == {0, 1, 2, 3, 10, 11}

KInputs == {1, 2, 8, 14, 15}

\* chunks of the collection and what a retrieval may return
Chunks == {"c1", "c2"}

RetrievedDocs ==
    { <<>>, <<"c1">>, <<"c1", "c2">>,
      <<"c1", "c1", "c1", "c1", "c1", "c1", "c2">> }

FallbackDocs == { <<>>, <<"c1", "c2">> }

\* lines the generation service may write
LinePool ==
    { <<"1.", "_", "What", "_", "is", "_", "x", "?">>,
      <<"2.", "_", "what", "_", "is", "_", "x", "?">>,
      <<"-", "_", "Explain", "_", "y">>,
      <<"bullet", "_", "Why", "_", "y", "?">>,
      <<"Describe", "_", "the", "_", "process">>,
      <<"_">>,
      <<"x", "?", "y">>,
      <<"_", "10.", "_", "Why", "_", "x", "?", "_">> }

RECURSIVE JoinLines(_)
JoinLines(lines) ==
    IF lines = <<>> THEN <<>>
    ELSE IF Len(lines) = 1 THEN lines[1]
    ELSE lines[1] \o <<"N">> \o JoinLines(Tail(lines))

\* the outputs of the generation service: up to MaxLines lines
GenOutputs == {JoinLines(ls) : ls \in SeqsUpTo(LinePool, MaxLines)}

NoReq ==
    [op |-> "none", k |-> 0, fetch_k |-> 0, search_type |-> "none",
     threshold |-> NoThreshold, query |-> 0, n |-> 0, context |-> <<>>,
     template |-> 0, focus |-> 0]

\* the retrieval request of lines 117-123
RetrievalReq(k, fetch_k, search_type, threshold, query) ==
    [NoReq EXCEPT !.op = "retrieve", !.k = k, !.fetch_k = fetch_k,
                  !.search_type = search_type, !.threshold = threshold,
                  !.query = query]

\* the generation request of lines 150-155
GenerationReq(n, ctx, template, focus) ==
    [NoReq EXCEPT !.op = "generate", !.n = n, !.context = ctx,
                  !.template = template, !.focus = focus]

\* the retrieval request of lines 234-235: plain similarity, the caller's k,
\* one fixed query (0)
FallbackRetrievalReq(k) ==
    [NoReq EXCEPT !.op = "fb_retrieve", !.k = k, !.search_type = "similarity"]

\* the generation request of lines 238-243: one fixed template (0)
FallbackGenerationReq(n, ctx) ==
    [NoReq EXCEPT !.op = "fb_generate", !.n = n, !.context = ctx]

\* variant: no lower limit
ClampNNoFloor(n) == Min(10, n)

\* n = max(1, min(10, int(n)))
ClampN(n) == Max(1, Min(10, n))

\* bounds of random.randint(max(6, k-2), min(12, k+4))
\* variant: the lower end of the draw is one lower
RandomKLowFive(k) == Max(5, k - 2)

RandomKLow(k) == Max(6, k - 2)

\* variant: the upper end of the draw is one too high
RandomKHighWide(k) == Min(13, k + 5)

RandomKHigh(k) == Min(12, k + 4)

\* how often chunk c occurs in s
Count(s, c) == Cardinality({i \in 1..Len(s) : s[i] = c})

\* lines 126-129: random.sample(docs, random_k) when more than random_k
\* documents came back, random.shuffle(docs) otherwise
\* variant: chunks are drawn with replacement
IsSampleWithReplacement(ctx, docs, random_k) ==
    /\ Len(ctx) = Min(random_k, Len(docs))
    /\ \A i \in 1..Len(ctx) : Count(docs, ctx[i]) > 0

IsSampleOf(ctx, docs, random_k) ==
    /\ Len(ctx) = Min(random_k, Len(docs))
    /\ \A c \in Chunks : Count(ctx, c) <= Count(docs, c)

Samples(docs, random_k) ==
    {ctx \in [1..Min(random_k, Len(docs)) -> Chunks] : IsSampleOf(ctx, docs, random_k)}

DigitText == <<"1", "2", "3", "4", "5", "6", "7", "8", "9", "10">>

\* line 246: the placeholders of the fallback
KeyConceptPlaceholders(n) ==
    [i \in 1..n |-> <<"What are the key concepts in this material? (Question ",
                      DigitText[i], ")">>]

\* line 250: the placeholders of the ultimate fallback
MainIdeaPlaceholders(n) ==
    [i \in 1..n |-> <<"What are the main ideas discussed in this content? (Generated question ",
                      DigitText[i], ")">>]

RECURSIVE KeepWithQ(_)
\* line 245: the stripped lines that are not blank and hold a '?'
KeepWithQ(lines) ==
    IF lines = <<>> THEN <<>>
    ELSE IF Strip(Head(lines)) # <<>> /\ Contains(Head(lines), "?")
         THEN <<Strip(Head(lines))>> \o KeepWithQ(Tail(lines))
         ELSE KeepWithQ(Tail(lines))

FallbackQuestions(raw_output) == KeepWithQ(SplitLines(raw_output))

\* lines 158-163: what the main path returns for a generation output
MainReturn(raw_output, n) ==
    FirstN(EnsureQuestionDiversity(ParseQuestions(raw_output)), n)

\* nothing retrieved
NoDocs == [docs |-> <<>>, random_k |-> 0]

GenInit ==
    /\ gn = 0
    /\ gk = 0
    /\ gpc = "idle"
    /\ gerr = "none"
    /\ greq = NoReq
    /\ gcontext = <<>>
    /\ graw = <<>>
    /\ gpath = "none"
    /\ gresult = <<>>
    /\ gcalls = <<>>
    /\ gdocs = NoDocs
    /\ gn0 = 0

\* generate_questions(vectorstore, n, k) up to the retrieval request of
\* line 123, with the values drawn at lines 103-115
GenCall(n, k) ==
    /\ gpc = "idle"
    /\ \E random_k \in RandomKLow(k)..RandomKHigh(k), random_fetch_k \in 16..24,
          random_query \in 1..NumQueries, search_type \in SearchTypes :
          \E threshold \in (IF search_type = "similarity_score_threshold"
                            THEN ThresholdSamples ELSE {NoThreshold}) :
             greq' = RetrievalReq(random_k, random_fetch_k, search_type,
                                  threshold, random_query)
    /\ gn' = ClampN(n)
    /\ gk' = k
    /\ gcalls' = Append(gcalls, "retrieve")
    /\ gpc' = "retrieving"
    /\ UNCHANGED <<gerr, gcontext, graw, gpath, gresult>>
    /\ UNCHANGED gdocs
    /\ gn0' = n
    /\ UNCHANGED outsideGen

\* generate_questions(vectorstore, n, k) when random.randint of line 103 is
\* given an empty range: ValueError, outside the try block
GenCallRaises(n, k) ==
    /\ gpc = "idle"
    /\ RandomKLow(k) > RandomKHigh(k)
    /\ gn' = ClampN(n)
    /\ gk' = k
    /\ gpc' = "raised"
    /\ gerr' = "value"
    /\ UNCHANGED <<greq, gcontext, graw, gpath, gresult, gcalls>>
    /\ UNCHANGED gdocs
    /\ gn0' = n
    /\ UNCHANGED outsideGen

\* line 123 answered with docs, then lines 126-132: sample or shuffle, join
Retrieved(docs, ctx) ==
    /\ gpc = "retrieving"
    /\ IsSampleOf(ctx, docs, greq.k)
    /\ gcontext' = ctx
    /\ greq' = NoReq
    /\ gpc' = "prompting"
    /\ UNCHANGED <<gn, gk, gerr, graw, gpath, gresult, gcalls>>
    /\ gdocs' = [docs |-> docs, random_k |-> greq.k]
    /\ UNCHANGED gn0
    /\ UNCHANGED outsideGen

\* line 123 raises: outside the try block, the error leaves generate_questions
RetrievalRaises ==
    /\ gpc = "retrieving"
    /\ greq' = NoReq
    /\ gpc' = "raised"
    /\ gerr' = "retrieval"
    /\ UNCHANGED <<gn, gk, gcontext, graw, gpath, gresult, gcalls>>
    /\ UNCHANGED gdocs
    /\ UNCHANGED gn0
    /\ UNCHANGED outsideGen

\* lines 135-155: draw the template and the focus area, send the
\* generation request
Prompt(template, focus) ==
    /\ gpc = "prompting"
    /\ greq' = GenerationReq(gn, gcontext, template, focus)
    /\ gcalls' = Append(gcalls, "generate")
    /\ gpc' = "generating"
    /\ UNCHANGED <<gn, gk, gerr, gcontext, graw, gpath, gresult>>
    /\ gdocs' = NoDocs
    /\ UNCHANGED gn0
    /\ UNCHANGED outsideGen

\* lines 150-155: the generation request answered with out
Generated(out) ==
    /\ gpc = "generating"
    /\ graw' = out
    /\ greq' = NoReq
    /\ gcontext' = <<>>
    /\ gpc' = "parsing"
    /\ UNCHANGED <<gn, gk, gerr, gpath, gresult, gcalls>>
    /\ UNCHANGED gdocs
    /\ UNCHANGED gn0
    /\ UNCHANGED outsideGen

\* lines 158-163: parse, deduplicate, return the first n
ParseAndReturn ==
    /\ gpc = "parsing"
    /\ gresult' = MainReturn(graw, gn)
    /\ gpath' = "main"
    /\ gpc' = "returned"
    /\ UNCHANGED <<gn, gk, gerr, greq, gcontext, graw, gcalls>>
    /\ UNCHANGED gdocs
    /\ UNCHANGED gn0
    /\ UNCHANGED outsideGen

\* variant: a failure of the main generation goes straight to the
\* placeholders, without the fallback generation
GenerationRaisesToPlaceholders ==
    /\ gpc = "generating"
    /\ gresult' = MainIdeaPlaceholders(gn)
    /\ gpath' = "ultimate_placeholder"
    /\ greq' = NoReq
    /\ gcontext' = <<>>
    /\ gpc' = "returned"
    /\ UNCHANGED <<gn, gk, gerr, graw, gcalls>>
    /\ UNCHANGED gdocs
    /\ UNCHANGED gn0
    /\ UNCHANGED outsideGen

\* lines 150-155 raise: line 167 calls _fallback_generation, which sends the
\* retrieval request of lines 234-235
GenerationRaises ==
    /\ gpc = "generating"
    /\ greq' = FallbackRetrievalReq(gk)
    /\ gcalls' = Append(gcalls, "fb_retrieve")
    /\ gcontext' = <<>>
    /\ gpc' = "fb_retrieving"
    /\ UNCHANGED <<gn, gk, gerr, graw, gpath, gresult>>
    /\ UNCHANGED gdocs
    /\ UNCHANGED gn0
    /\ UNCHANGED outsideGen

\* line 235 answered with docs, then lines 236-243
FallbackRetrieved(docs) ==
    /\ gpc = "fb_retrieving"
    /\ greq' = FallbackGenerationReq(gn, docs)
    /\ gcalls' = Append(gcalls, "fb_generate")
    /\ gpc' = "fb_generating"
    /\ UNCHANGED <<gn, gk, gerr, gcontext, graw, gpath, gresult>>
    /\ UNCHANGED gdocs
    /\ UNCHANGED gn0
    /\ UNCHANGED outsideGen

\* lines 234-243 raise (retrieval or generation): the handler of lines
\* 248-250 returns the placeholders
FallbackRaises ==
    /\ gpc \in {"fb_retrieving", "fb_generating"}
    /\ gresult' = MainIdeaPlaceholders(gn)
    /\ gpath' = "ultimate_placeholder"
    /\ greq' = NoReq
    /\ gpc' = "returned"
    /\ UNCHANGED <<gn, gk, gerr, gcontext, graw, gcalls>>
    /\ UNCHANGED gdocs
    /\ UNCHANGED gn0
    /\ UNCHANGED outsideGen

\* lines 243-246: the fallback generation request answered with out
FallbackGenerated(out) ==
    /\ gpc = "fb_generating"
    /\ graw' = out
    /\ IF FallbackQuestions(out) # <<>>
       THEN /\ gresult' = FirstN(FallbackQuestions(out), gn)
            /\ gpath' = "fallback"
       ELSE /\ gresult' = KeyConceptPlaceholders(gn)
            /\ gpath' = "fallback_placeholder"
    /\ greq' = NoReq
    /\ gpc' = "returned"
    /\ UNCHANGED <<gn, gk, gerr, gcontext, gcalls>>
    /\ UNCHANGED gdocs
    /\ UNCHANGED gn0
    /\ UNCHANGED outsideGen

\* every context a retrieval of RetrievedDocs can lead to
SampleCandidates == UNION {Samples(d, rk) : d \in RetrievedDocs, rk \in 6..12}

GenNext ==
    \/ \E n \in NInputs, k \in KInputs : GenCall(n, k)
    \/ \E n \in NInputs, k \in KInputs : GenCallRaises(n, k)
    \/ \E docs \in RetrievedDocs, ctx \in SampleCandidates : Retrieved(docs, ctx)
    \/ RetrievalRaises
    \/ \E template \in 1..NumTemplates, focus \in 1..NumFocusAreas : Prompt(template, focus)
    \/ \E out \in GenOutputs : Generated(out)
    \/ ParseAndReturn
    \/ GenerationRaises
    \/ \E docs \in FallbackDocs : FallbackRetrieved(docs)
    \/ FallbackRaises
    \/ \E out \in GenOutputs : FallbackGenerated(out)

\* ------------------------------------------------------------------------
\* PDFService (pdf_service.py): the collections under db_dir.  A collection
\* directory holds the two files FAISS.save_local writes, index.faiss (the
\* vectors) and index.pkl (the document store); a file is "absent",
\* "corrupt" (truncated by a write that failed) or holds what was built
\* from one document.
\* ------------------------------------------------------------------------
CollectionNames == {"a", "b"}

Documents == {"d1", "d2"}

Procs == {1, 2}

Artifacts == {"absent", "corrupt"} \cup Documents

NoDir == [dir |-> FALSE, faiss |-> "absent", pkl |-> "absent"]

\* what one complete save_local of the index of doc leaves
Complete(doc) == [dir |-> TRUE, faiss |-> doc, pkl |-> doc]

NoIndexReq == [file_path |-> "none", collection_name |-> "none", error |-> "none"]

NoRead == [op |-> "none", collection_name |-> "none", names |-> <<>>,
           result |-> "none", status |-> 0]

StoreInit ==
    /\ db_dir = [name \in CollectionNames |-> NoDir]
    /\ ipc = [p \in Procs |-> "idle"]
    /\ ireq = [p \in Procs |-> NoIndexReq]
    /\ isnap = [p \in Procs |-> NoDir]
    /\ lout = NoRead

InFlight(p) == ipc[p] \in {"loading", "built", "dir_made", "faiss_written"}

\* index_pdf(file_path, collection_name) on a file that exists: lines 37-43
IndexCall(p, file_path, collection_name) ==
    /\ ~InFlight(p)
    /\ ipc' = [ipc EXCEPT ![p] = "loading"]
    /\ ireq' = [ireq EXCEPT ![p] = [file_path |-> file_path,
                                    collection_name |-> collection_name,
                                    error |-> "none"]]
    /\ isnap' = [isnap EXCEPT ![p] = db_dir[collection_name]]
    /\ lout' = NoRead
    /\ UNCHANGED db_dir
    /\ UNCHANGED outsideStore

\* index_pdf on a path that does not exist: FileNotFoundError of line 41
IndexCallMissingFile(p, collection_name) ==
    /\ ~InFlight(p)
    /\ ipc' = [ipc EXCEPT ![p] = "raised"]
    /\ ireq' = [ireq EXCEPT ![p] = [file_path |-> "missing",
                                    collection_name |-> collection_name,
                                    error |-> "FileNotFoundError"]]
    /\ isnap' = [isnap EXCEPT ![p] = db_dir[collection_name]]
    /\ lout' = NoRead
    /\ UNCHANGED db_dir
    /\ UNCHANGED outsideStore

\* lines 43-47: the document is loaded, split and embedded, the index is
\* built in memory
Built(p) ==
    /\ ipc[p] = "loading"
    /\ ipc' = [ipc EXCEPT ![p] = "built"]
    /\ UNCHANGED <<db_dir, ireq, isnap, lout>>
    /\ UNCHANGED outsideStore

\* lines 43-47 raise: the loader or the embedding service fails
BuildFails(p, error) ==
    /\ ipc[p] = "loading"
    /\ ipc' = [ipc EXCEPT ![p] = "raised"]
    /\ ireq' = [ireq EXCEPT ![p].error = error]
    /\ UNCHANGED <<db_dir, isnap, lout>>
    /\ UNCHANGED outsideStore

\* line 48, save_local: path.mkdir(exist_ok=True, parents=True)
MakeDir(p) ==
    /\ ipc[p] = "built"
    /\ db_dir' = [db_dir EXCEPT ![ireq[p].collection_name].dir = TRUE]
    /\ ipc' = [ipc EXCEPT ![p] = "dir_made"]
    /\ UNCHANGED <<ireq, isnap, lout>>
    /\ UNCHANGED outsideStore

\* variant: an index file that is already there is kept
WriteFaissKeep(p) ==
    /\ ipc[p] = "dir_made"
    /\ db_dir' = [db_dir EXCEPT ![ireq[p].collection_name].faiss =
                      IF @ \in Documents THEN @ ELSE ireq[p].file_path]
    /\ ipc' = [ipc EXCEPT ![p] = "faiss_written"]
    /\ UNCHANGED <<ireq, isnap, lout>>
    /\ UNCHANGED outsideStore

\* line 48, save_local: faiss.write_index(index, path / "index.faiss")
WriteFaiss(p) ==
    /\ ipc[p] = "dir_made"
    /\ db_dir' = [db_dir EXCEPT ![ireq[p].collection_name].faiss = ireq[p].file_path]
    /\ ipc' = [ipc EXCEPT ![p] = "faiss_written"]
    /\ UNCHANGED <<ireq, isnap, lout>>
    /\ UNCHANGED outsideStore

\* line 48, save_local: pickle.dump((docstore, index_to_docstore_id)) into
\* path / "index.pkl"; index_pdf returns (line 50)
WritePkl(p) ==
    /\ ipc[p] = "faiss_written"
    /\ db_dir' = [db_dir EXCEPT ![ireq[p].collection_name].pkl = ireq[p].file_path]
    /\ ipc' = [ipc EXCEPT ![p] = "returned"]
    /\ UNCHANGED <<ireq, isnap, lout>>
    /\ UNCHANGED outsideStore

\* line 48 raises (disk full, permission, I/O error): in mkdir nothing was
\* written; in a file write the file is left as it was (it could not be
\* opened) or torn (opened for writing, so truncated, and not completed)
PersistFails(p, torn) ==
    /\ ipc[p] \in {"built", "dir_made", "faiss_written"}
    /\ db_dir' = CASE ipc[p] = "built" -> db_dir
                   [] ipc[p] = "dir_made" ->
                        [db_dir EXCEPT ![ireq[p].collection_name].faiss =
                             IF torn THEN "corrupt" ELSE @]
                   [] ipc[p] = "faiss_written" ->
                        [db_dir EXCEPT ![ireq[p].collection_name].pkl =
                             IF torn THEN "corrupt" ELSE @]
    /\ ipc' = [ipc EXCEPT ![p] = "raised"]
    /\ ireq' = [ireq EXCEPT ![p].error = "OSError"]
    /\ UNCHANGED <<isnap, lout>>
    /\ UNCHANGED outsideStore

\* lines 56-59: the names, in the order iterdir gives them, of the
\* directories that hold an index.faiss file
RECURSIVE ListCollections(_, _)
ListCollections(dirs, order) ==
    IF order = <<>> THEN <<>>
    ELSE IF dirs[Head(order)].dir /\ dirs[Head(order)].faiss # "absent"
         THEN <<Head(order)>> \o ListCollections(dirs, Tail(order))
         ELSE ListCollections(dirs, Tail(order))

\* the orders iterdir may give the directories in
DirOrders == {<<"a", "b">>, <<"b", "a">>}

\* lines 61-66: FileNotFoundError of line 64 when the directory is missing;
\* else FAISS.load_local reads index.faiss (faiss raises RuntimeError when
\* the file is missing or unreadable), then opens index.pkl
\* (FileNotFoundError when missing) and unpickles it (UnpicklingError when
\* torn); the two files are not checked against each other
LoadVectorstore(directory) ==
    IF ~directory.dir THEN "FileNotFoundError"
    ELSE IF directory.faiss \in {"absent", "corrupt"} THEN "RuntimeError"
    ELSE IF directory.pkl = "absent" THEN "FileNotFoundError"
    ELSE IF directory.pkl = "corrupt" THEN "UnpicklingError"
    ELSE "handle"

\* main.py: the handlers of the endpoints answer 404 for FileNotFoundError
\* and 500 for any other exception
StatusOf(result) ==
    IF result = "handle" THEN 200
    ELSE IF result = "FileNotFoundError" THEN 404
    ELSE 500

\* the call list_collections()
ListCollectionsCall(order) ==
    /\ \A p \in Procs : ~InFlight(p)
    /\ lout' = [NoRead EXCEPT !.op = "list", !.names = ListCollections(db_dir, order),
                              !.status = 200]
    /\ UNCHANGED <<db_dir, ipc, ireq, isnap>>
    /\ UNCHANGED outsideStore

\* variant: load_vectorstore makes the directory of the collection
LoadVectorstoreCallMakesDir(collection_name) ==
    /\ \A p \in Procs : ~InFlight(p)
    /\ lout' = [NoRead EXCEPT !.op = "load", !.collection_name = collection_name,
                              !.result = LoadVectorstore(db_dir[collection_name]),
                              !.status = StatusOf(LoadVectorstore(db_dir[collection_name]))]
    /\ db_dir' = [db_dir EXCEPT ![collection_name].dir = TRUE]
    /\ UNCHANGED <<ipc, ireq, isnap>>
    /\ UNCHANGED outsideStore

\* the call load_vectorstore(collection_name)
LoadVectorstoreCall(collection_name) ==
    /\ \A p \in Procs : ~InFlight(p)
    /\ lout' = [NoRead EXCEPT !.op = "load", !.collection_name = collection_name,
                              !.result = LoadVectorstore(db_dir[collection_name]),
                              !.status = StatusOf(LoadVectorstore(db_dir[collection_name]))]
    /\ UNCHANGED <<db_dir, ipc, ireq, isnap>>
    /\ UNCHANGED outsideStore

BuildErrors == {"LoaderError", "EmbeddingError"}

\* one caller at a time: index_pdf, list_collections, load_vectorstore
StoreNext ==
    \/ \E file_path \in Documents, name \in CollectionNames : IndexCall(1, file_path, name)
    \/ \E name \in CollectionNames : IndexCallMissingFile(1, name)
    \/ Built(1)
    \/ \E error \in BuildErrors : BuildFails(1, error)
    \/ MakeDir(1)
    \/ WriteFaiss(1)
    \/ WritePkl(1)
    \/ \E torn \in BOOLEAN : PersistFails(1, torn)
    \/ \E order \in DirOrders : ListCollectionsCall(order)
    \/ \E name \in CollectionNames : LoadVectorstoreCall(name)

\* two callers of index_pdf at once (the API server and the Streamlit
\* application share db_dir; neither takes a lock)
RaceNext ==
    \/ \E p \in Procs, file_path \in Documents, name \in CollectionNames :
          IndexCall(p, file_path, name)
    \/ \E p \in Procs : Built(p)
    \/ \E p \in Procs : MakeDir(p)
    \/ \E p \in Procs : WriteFaiss(p)
    \/ \E p \in Procs : WritePkl(p)

\* ------------------------------------------------------------------------
\* The API server (main.py): the handlers are coroutines that call the
\* services without awaiting, so the server runs one request at a time,
\* from the call of the service to the response.
\* ------------------------------------------------------------------------
ServerIdle ==
    /\ gpc = "idle"
    /\ epc = "idle"
    /\ ipc[1] = "idle"
    /\ lout = NoRead

\* POST /index-pdf/{filename} for an uploaded file: lines 100-117
IndexPdfEndpoint(file_path, collection_name) ==
    /\ ServerIdle
    /\ IndexCall(1, file_path, collection_name)

\* GET /collections: lines 126-137
ListCollectionsEndpoint(order) ==
    /\ ServerIdle
    /\ ListCollectionsCall(order)

\* POST /generate-questions and POST /evaluate-answers on a collection
\* that load_vectorstore does not load: lines 161 and 192
LoadRefused(collection_name) ==
    /\ ServerIdle
    /\ LoadVectorstore(db_dir[collection_name]) # "handle"
    /\ LoadVectorstoreCall(collection_name)

\* POST /generate-questions on a collection that loads: lines 161-162,
\* generate_questions is called with the default k
GenerateQuestionsEndpoint(collection_name, n) ==
    /\ ServerIdle
    /\ LoadVectorstore(db_dir[collection_name]) = "handle"
    /\ GenCall(n, 8)

\* POST /evaluate-answers on a collection that loads: lines 192-194
EvaluateAnswersEndpoint(collection_name, pairs) ==
    /\ ServerIdle
    /\ LoadVectorstore(db_dir[collection_name]) = "handle"
    /\ EvalCall(pairs)

\* the response is sent and the handler returns: what the request held is
\* gone
IndexResponse ==
    /\ ipc[1] \in {"returned", "raised"}
    /\ ipc' = [ipc EXCEPT ![1] = "idle"]
    /\ ireq' = [ireq EXCEPT ![1] = NoIndexReq]
    /\ isnap' = [isnap EXCEPT ![1] = NoDir]
    /\ UNCHANGED <<db_dir, lout>>
    /\ UNCHANGED outsideStore

ReadResponse ==
    /\ lout # NoRead
    /\ lout' = NoRead
    /\ UNCHANGED <<db_dir, ipc, ireq, isnap>>
    /\ UNCHANGED outsideStore

QuestionsResponse ==
    /\ gpc \in {"returned", "raised"}
    /\ gn' = 0
    /\ gk' = 0
    /\ gpc' = "idle"
    /\ gerr' = "none"
    /\ greq' = NoReq
    /\ gcontext' = <<>>
    /\ graw' = <<>>
    /\ gpath' = "none"
    /\ gresult' = <<>>
    /\ gcalls' = <<>>
    /\ gdocs' = NoDocs
    /\ gn0' = 0
    /\ UNCHANGED outsideGen

EvaluationResponse ==
    /\ epc \in {"done", "raised"}
    /\ qas' = <<>>
    /\ idx' = 1
    /\ results' = <<>>
    /\ epc' = "idle"
    /\ eerr' = "none"
    /\ context' = <<>>
    /\ ideal' = <<>>
    /\ raw' = NoRaw
    /\ parsed' = NoObj
    /\ calls' = <<>>
    /\ UNCHANGED outsideEval

\* a few generation outputs: questions, a line without question, nothing
ServerOutputs ==
    { <<>>,
      <<"1.", "_", "What", "_", "is", "_", "x", "?">>,
      <<"-", "_", "Explain", "_", "y">> }

ServerNext ==
    \/ \E name \in CollectionNames : IndexPdfEndpoint("d1", name)
    \/ Built(1)
    \/ \E error \in BuildErrors : BuildFails(1, error)
    \/ MakeDir(1)
    \/ WriteFaiss(1)
    \/ WritePkl(1)
    \/ \E torn \in BOOLEAN : PersistFails(1, torn)
    \/ IndexResponse
    \/ \E order \in DirOrders : ListCollectionsEndpoint(order)
    \/ \E name \in CollectionNames : LoadRefused(name)
    \/ ReadResponse
    \/ \E name \in CollectionNames : GenerateQuestionsEndpoint(name, 2)
    \/ \E docs \in RetrievedDocs, ctx \in SampleCandidates : Retrieved(docs, ctx)
    \/ RetrievalRaises
    \/ \E template \in 1..NumTemplates, focus \in 1..NumFocusAreas : Prompt(template, focus)
    \/ \E out \in ServerOutputs : Generated(out)
    \/ ParseAndReturn
    \/ GenerationRaises
    \/ \E docs \in FallbackDocs : FallbackRetrieved(docs)
    \/ FallbackRaises
    \/ \E out \in ServerOutputs : FallbackGenerated(out)
    \/ QuestionsResponse
    \/ \E name \in CollectionNames, pairs \in SeqsUpTo(Pairs, 1) : EvaluateAnswersEndpoint(name, pairs)
    \/ \E docs \in Retrievals : Retrieve(docs)
    \/ RetrieveFails
    \/ \E out \in IdealOutputs : IdealAnswer(out)
    \/ IdealAnswerFails
    \/ \E r \in BatchOutputs : Grade(r)
    \/ GradeFails
    \/ EvaluationResponse

\* ------------------------------------------------------------------------
\* The secured API: API keys (security.py) and the admin endpoints
\* (secure_main.py lines 312-332).  Rate limiting is not modelled.
\* ------------------------------------------------------------------------
MaxGenerated == 1

MaxUsage == 2

\* the keys of the environment variables API_KEY_0 .. API_KEY_9
EnvKeys == {"k1", "k2"}

DemoKey == "pdt_demo_12345"

\* secrets.token_urlsafe(32): a key no one holds yet
GeneratedKeys == <<"pdt_g1", "pdt_g2", "pdt_g3", "pdt_g4">>

KeyNames == {"client"}

KeyInfo(name, origin) == [name |-> name, usage_count |-> 0, origin |-> origin]

\* _load_api_keys, lines 61-88, for the keys env of the environment
LoadApiKeys(env, development) ==
    IF env # {} THEN [key \in env |-> KeyInfo(key, "loaded")]
    ELSE IF development THEN [key \in {DemoKey} |-> KeyInfo("development", "loaded")]
    ELSE [key \in {} |-> KeyInfo("none", "loaded")]

NoResponse == [op |-> "none", caller |-> "none", status |-> 0, key |-> "none"]

\* an API started without keys
ApiOff ==
    /\ api_keys = LoadApiKeys({}, FALSE)
    /\ usage = {}
    /\ admins = {}
    /\ aresp = NoResponse

\* an API started with the keys of the environment; the operator gives
\* admin privileges to the holders of some of them
ApiInit ==
    /\ \E env \in SUBSET EnvKeys, development \in BOOLEAN :
          api_keys = LoadApiKeys(env, development)
    /\ usage = {}
    /\ admins \in SUBSET (DOMAIN api_keys)
    /\ aresp = NoResponse

\* what a caller may send as X-API-Key: nothing, a key that was never
\* issued, or a key that may be in api_keys
SentKeys ==
    {"none", "bad", DemoKey} \cup EnvKeys
        \cup {GeneratedKeys[i] : i \in 1..Len(GeneratedKeys)}

IssuedKeys == {key \in DOMAIN api_keys : api_keys[key].origin # "loaded"}

\* verify_api_key, lines 150-167: the request carries a key of api_keys
Verified(sent) ==
    /\ sent \in DOMAIN api_keys
    /\ api_keys[sent].usage_count < MaxUsage

\* validate_key, lines 90-95: the use of the key is counted
Counted(keys, sent) == [keys EXCEPT ![sent].usage_count = @ + 1]

\* verify_api_key raises 401: no key, or a key that is not in api_keys
Unauthorized(op, sent) ==
    /\ sent \notin DOMAIN api_keys
    /\ aresp' = [NoResponse EXCEPT !.op = op, !.caller = sent, !.status = 401]
    /\ UNCHANGED <<api_keys, usage, admins>>
    /\ UNCHANGED outsideApi

\* GET /collections of the secured API, lines 193-207: an endpoint that
\* tracks its request under the name of the key
SecuredRequest(sent) ==
    /\ Verified(sent)
    /\ api_keys' = Counted(api_keys, sent)
    /\ usage' = usage \cup {api_keys[sent].name}
    /\ aresp' = [NoResponse EXCEPT !.op = "list", !.caller = sent, !.status = 200]
    /\ UNCHANGED admins
    /\ UNCHANGED outsideApi

\* GET /admin/usage/{api_key}, lines 313-322
GetUsageStats(sent, api_key) ==
    /\ Verified(sent)
    /\ api_keys' = Counted(api_keys, sent)
    /\ aresp' = [NoResponse EXCEPT !.op = "usage", !.caller = sent, !.status = 200,
                                   !.key = api_key]
    /\ UNCHANGED <<usage, admins>>
    /\ UNCHANGED outsideApi

\* POST /admin/generate-api-key, lines 324-332, and generate_key, lines
\* 97-105; origin records the key of the caller
GenerateNewApiKey(sent, name) ==
    /\ Verified(sent)
    /\ Cardinality(IssuedKeys) < MaxGenerated
    /\ LET key == GeneratedKeys[Cardinality(IssuedKeys) + 1] IN
       /\ api_keys' = [k \in DOMAIN api_keys \cup {key} |->
                         IF k = key THEN KeyInfo(name, sent)
                         ELSE Counted(api_keys, sent)[k]]
       /\ aresp' = [NoResponse EXCEPT !.op = "generate", !.caller = sent,
                                      !.status = 200, !.key = key]
    /\ UNCHANGED <<usage, admins>>
    /\ UNCHANGED outsideApi

ApiNext ==
    \/ \E op \in {"list", "usage", "generate"}, sent \in SentKeys : Unauthorized(op, sent)
    \/ \E sent \in SentKeys : SecuredRequest(sent)
    \/ \E sent \in SentKeys, api_key \in EnvKeys : GetUsageStats(sent, api_key)
    \/ \E sent \in SentKeys, name \in KeyNames : GenerateNewApiKey(sent, name)

FunInit ==
    /\ praw = <<>>
    /\ pquestions = <<>>
    /\ dquestions = <<>>
    /\ dunique = <<>>
    /\ fpc = "ready"

Init == EvalInit /\ GenInit /\ FunInit /\ StoreInit /\ ApiOff /\ TwinOff

\* the secured API, its keys loaded
ApiStart == EvalInit /\ GenInit /\ FunInit /\ StoreInit /\ ApiInit /\ TwinOff

SpecApi == ApiStart /\ [][ApiNext]_vars

\* PDFService with two callers of index_pdf
SpecRace == Init /\ [][RaceNext]_vars

\* the API server
SpecServer == Init /\ [][ServerNext]_vars

\* PDFService with one caller
SpecStore == Init /\ [][StoreNext]_vars

\* batches of evaluate_answers
SpecEval == Init /\ [][EvalNext]_vars

\* one pair of evaluate_answers, every grading output
SpecGrade == Init /\ [][GradeNext]_vars

\* the service is any of Services
TwinInit ==
    /\ EvalInit
    /\ GenInit
    /\ FunInit
    /\ StoreInit
    /\ ApiOff
    /\ svc \in Services
    /\ prev = NoRun

\* two calls of evaluate_answers that differ in the answers only
SpecTwin == TwinInit /\ [][TwinNext]_vars

\* calls of generate_questions
SpecGen == Init /\ [][GenNext]_vars

\* ------------------------------------------------------------------------
\* Properties of generate_questions
\* ------------------------------------------------------------------------

\* C1: generate_questions returns a list of exactly n questions on every
\* path (main, fallback, placeholders).
ReturnsExactlyN ==
    gpc = "returned" => Len(gresult) = gn

\* C2: no failure of a retrieval call or of the generation service leaves
\* generate_questions as an exception.
ServiceFailureNeverRaises ==
    ~(gpc = "raised" /\ gerr \in {"retrieval", "generation"})

\* ------------------------------------------------------------------------
\* _ensure_question_diversity on its own: two questions made of runs of a
\* ten-word vocabulary, so that their similarity takes the values around
\* the threshold (7/10 exactly, 5/7 and 3/4 above, 2/3 below), and lists of
\* up to MaxQuestions candidates that are similar in chains
\* ------------------------------------------------------------------------
Vocabulary ==
    <<"What", "is", "the", "process", "x", "y", "Why", "Explain", "Describe", "?">>

\* the words lo..hi of the vocabulary with single spaces between them,
\* as written (cap) or in lower case
Phrase(lo, hi, cap) ==
    [i \in 1..(2 * (hi - lo) + 1) |->
        IF i % 2 = 0 THEN "_"
        ELSE IF cap THEN Vocabulary[lo + (i \div 2)]
        ELSE LowerTok(Vocabulary[lo + (i \div 2)])]

Phrases ==
    {Phrase(lo, hi, cap) : lo \in 1..Len(Vocabulary), hi \in 1..Len(Vocabulary),
                           cap \in BOOLEAN} \ {<<>>}

MaxQuestions == 3

\* candidates: "What is the process" and "what is the process x" are
\* similar (4/5), so are the latter and "is the process x" (4/5) and its
\* capitalised copy, while the first and "is the process x" are not (3/5);
\* a question of one word, an empty one and one of white space only
Candidates ==
    { Phrase(1, 4, TRUE), Phrase(1, 5, FALSE), Phrase(1, 5, TRUE),
      Phrase(2, 5, FALSE), Phrase(2, 6, FALSE), Phrase(7, 7, TRUE),
      <<>>, <<"_">> }

DedupInit ==
    /\ EvalInit
    /\ GenInit
    /\ StoreInit
    /\ ApiOff
    /\ TwinOff
    /\ praw = <<>>
    /\ pquestions = <<>>
    /\ dquestions \in {<<q1, q2>> : q1 \in Phrases, q2 \in Phrases}
                        \cup SeqsUpTo(Candidates, MaxQuestions)
    /\ dunique = <<>>
    /\ fpc = "ready"

\* the call _ensure_question_diversity(questions, target_count)
EnsureDiversityCall ==
    /\ fpc = "ready"
    /\ dunique' = EnsureQuestionDiversity(dquestions)
    /\ fpc' = "deduped"
    /\ UNCHANGED <<praw, pquestions, dquestions>>
    /\ UNCHANGED outsideFun

\* the call on the list the previous call returned
EnsureDiversityAgain ==
    /\ fpc = "deduped"
    /\ dunique' = EnsureQuestionDiversity(dunique)
    /\ fpc' = "deduped again"
    /\ UNCHANGED <<praw, pquestions, dquestions>>
    /\ UNCHANGED outsideFun

DedupNext ==
    \/ EnsureDiversityCall
    \/ EnsureDiversityAgain

\* _ensure_question_diversity on pairs of questions
SpecDedup == DedupInit /\ [][DedupNext]_vars

\* the lower-case words of a question whose words are single tokens
WordsOf(q) == {LowerTok(q[i]) : i \in 1..Len(q)} \ {"_"}

CommonWords(q1, q2) == Cardinality(WordsOf(q1) \cap WordsOf(q2))

AllWords(q1, q2) == Cardinality(WordsOf(q1) \cup WordsOf(q2))

\* C11: of two questions _ensure_question_diversity keeps at most one when
\* their word-set Jaccard similarity is above 0.7 and both when it is 0.7 or
\* less.
DedupThreshold ==
    (fpc = "deduped" /\ Len(dquestions) = 2) =>
        IF 10 * CommonWords(dquestions[1], dquestions[2]) > 7 * AllWords(dquestions[1], dquestions[2])
        THEN Len(dunique) <= 1
        ELSE dunique = dquestions

DedupThresholdWitness ==
    /\ fpc = "deduped"
    /\ Len(dquestions) = 2
    /\ CommonWords(dquestions[1], dquestions[2]) = 7
    /\ AllWords(dquestions[1], dquestions[2]) = 10
    /\ dunique = dquestions
    /\ dquestions[1] # Lower(dquestions[1])

\* C12: every question generate_questions returns, on the main path and on
\* the fallback path, is non-empty after trimming and either ends with a
\* question mark or is longer than 10 characters.
ReturnedQuestionsWellFormed ==
    gpc = "returned" =>
        \A i \in 1..Len(gresult) :
            /\ Strip(gresult[i]) # <<>>
            /\ EndsWithQ(gresult[i]) \/ TextLen(gresult[i]) > 10

\* ------------------------------------------------------------------------
\* _parse_questions on its own: outputs of up to MaxLines lines, with every
\* kind of enumeration marker, doubled markers and lines the filter drops
\* ------------------------------------------------------------------------
MarkedLines ==
    { <<"11.", "_", "Why", "_", "x", "?">>,
      <<"1)", "_", "Describe", "_", "the", "_", "process">>,
      <<"10)", "_", "Why", "_", "y", "?">>,
      <<"*", "_", "Why", "_", "x", "?">>,
      <<"mojibake-bullet", "_", "Why", "_", "y", "?">>,
      <<"1.", "_", "-", "_", "Why", "_", "x", "?">>,
      <<"-", "Why", "_", "y", "?">>,
      <<"2.", "_", "x">> }

ParseInputs ==
    {JoinLines(lines) : lines \in SeqsUpTo(LinePool \cup MarkedLines, MaxLines)}

ParseInit ==
    /\ EvalInit
    /\ GenInit
    /\ StoreInit
    /\ ApiOff
    /\ TwinOff
    /\ praw \in ParseInputs
    /\ pquestions = <<>>
    /\ dquestions = <<>>
    /\ dunique = <<>>
    /\ fpc = "ready"

\* the call _parse_questions(raw_output, expected_count)
ParseQuestionsCall ==
    /\ fpc = "ready"
    /\ pquestions' = ParseQuestions(praw)
    /\ fpc' = "parsed"
    /\ UNCHANGED <<praw, dquestions, dunique>>
    /\ UNCHANGED outsideFun

ParseNext == ParseQuestionsCall

\* _parse_questions on generation outputs
SpecParse == ParseInit /\ [][ParseNext]_vars

\* the enumeration markers of the comment of line 179: a number followed
\* by '.' or ')', a bullet character, a dash
EnumerationMarkers ==
    {"1.", "2.", "10.", "11.", "1)", "10)", "bullet", "*", "-"}

StartsWithMarker(text) == text # <<>> /\ text[1] \in EnumerationMarkers

\* the trimmed line starts with no marker, or with one marker and no second
\* one after it
AtMostOneMarker(line) ==
    StartsWithMarker(Strip(line)) => ~StartsWithMarker(LStrip(Tail(Strip(line))))

\* C13: _parse_questions strips the leading enumeration marker (a number
\* followed by '.' or ')', a bullet character, a dash) of every candidate
\* line, so that no kept question starts with a marker when each line
\* carried at most one.
MarkersStripped ==
    (fpc = "parsed" /\ \A i \in 1..Len(SplitLines(praw)) : AtMostOneMarker(SplitLines(praw)[i])) =>
        \A j \in 1..Len(pquestions) : ~StartsWithMarker(pquestions[j])

\* the requests of one call in the order of the code: main retrieval, main
\* generation, fallback retrieval, fallback generation
StageOrder == <<"retrieve", "generate", "fb_retrieve", "fb_generate">>

IsPrefix(s, full) == Len(s) <= Len(full) /\ s = SubSeq(full, 1, Len(s))

PlaceholderLists(n) == {KeyConceptPlaceholders(n), MainIdeaPlaceholders(n)}

\* one step of generate_questions keeps the stages in order
StageStep ==
    /\ IsPrefix(gcalls', StageOrder)
    /\ (gpc' = "fb_retrieving" /\ gpc # "fb_retrieving") =>
           /\ gpc \in {"generating", "parsing"}
           /\ greq' = [NoReq EXCEPT !.op = "fb_retrieve", !.k = gk,
                                    !.search_type = "similarity"]
    /\ (gpc' = "fb_generating" /\ gpc # "fb_generating") =>
           /\ gpc = "fb_retrieving"
           /\ greq'.template = 0
    /\ (gpc' = "returned" /\ gpc # "returned" /\ gresult' \in PlaceholderLists(gn)) =>
           \/ gpc \in {"fb_retrieving", "fb_generating"} /\ graw' = graw
           \/ gpc = "fb_generating" /\ FallbackQuestions(graw') = <<>>
    /\ (gpc' = "returned" /\ gpc # "returned") =>
           Count(gcalls', "generate") = 1 /\ Count(gcalls', "fb_generate") <= 1

\* C14: within one generate_questions call the stages run in a fixed order
\* and each at most once: the fallback (plain similarity retrieval with the
\* caller's k, one fixed template) starts only after the main generation or
\* parsing raised, placeholders are returned only after the fallback raised
\* or yielded no usable question, and a call that returns has invoked the
\* generation service once in the main path and at most once in the fallback.
StagesInOrder == [][StageStep]_vars

StagesInOrderWitness ==
    /\ gpc = "returned"
    /\ gpath = "fallback_placeholder"
    /\ gcalls = StageOrder
    /\ gresult = KeyConceptPlaceholders(gn)
    /\ gn > 1

\* a persisted index that is all there: both files, written from the same
\* document
Valid(directory) ==
    /\ directory.dir
    /\ directory.faiss \in Documents
    /\ directory.pkl = directory.faiss

\* C15: load_vectorstore fails with FileNotFoundError (404 at the API) for
\* every collection name that has no valid persisted index, a directory
\* without index artifact included, and for no other reason.
LoadNotFoundIffNoValidIndex ==
    lout.op = "load" =>
        ((lout.result = "FileNotFoundError" /\ lout.status = 404)
            <=> ~Valid(db_dir[lout.collection_name]))

\* C16: list_collections returns only names whose persisted index
\* artifacts are all present and valid.
ListedAreValid ==
    lout.op = "list" =>
        \A i \in 1..Len(lout.names) : Valid(db_dir[lout.names[i]])

\* C17: an index_pdf call that fails leaves the files of its collection as
\* they were when it started: no partial collection, the prior one intact.
FailedIndexLeavesCollection ==
    \A p \in Procs :
        ipc[p] = "raised" =>
            /\ db_dir[ireq[p].collection_name].faiss = isnap[p].faiss
            /\ db_dir[ireq[p].collection_name].pkl = isnap[p].pkl

\* C18: after index_pdf returns, the collection holds the content of that
\* call only, whatever the name held before (the same document, another
\* one, nothing), and list_collections has the name exactly once.
IndexOverwrites ==
    ipc[1] = "returned" =>
        /\ db_dir[ireq[1].collection_name] = Complete(ireq[1].file_path)
        /\ \A order \in DirOrders :
               Count(ListCollections(db_dir, order), ireq[1].collection_name) = 1

IndexOverwritesWitness ==
    /\ ipc[1] = "returned"
    /\ isnap[1] = Complete("d1")
    /\ ireq[1].file_path = "d2"
    /\ db_dir[ireq[1].collection_name] = Complete("d2")
    /\ lout.op = "none"

\* C19: when two index_pdf calls on the same collection name have both
\* returned, the collection is the complete content written by one of
\* them, in every interleaving.
LastWriteWins ==
    (/\ ipc[1] = "returned"
     /\ ipc[2] = "returned"
     /\ ireq[1].collection_name = ireq[2].collection_name) =>
        \E p \in Procs :
            db_dir[ireq[p].collection_name] = Complete(ireq[p].file_path)

\* one step of the server changes the directory of a collection only as a
\* step of an index_pdf call, and only for the collection of that call
FrameStep ==
    \A name \in CollectionNames :
        db_dir'[name] # db_dir[name] =>
            /\ InFlight(1)
            /\ ipc'[1] # ipc[1]
            /\ ireq[1].collection_name = name
            /\ lout' = lout
            /\ gvars' = gvars
            /\ evars' = evars

\* C20: only index_pdf changes the collection store: list_collections,
\* load_vectorstore, generate_questions and evaluate_answers never create,
\* modify or delete the persisted content of a collection, and index_pdf
\* changes only the collection it is given.
OnlyIndexPdfWrites == [][FrameStep]_vars

OnlyIndexPdfWritesWitness ==
    /\ gpc = "returned"
    /\ gpath = "main"
    /\ gresult # <<>>
    /\ db_dir["a"] = Complete("d1")
    /\ db_dir["b"] = [dir |-> TRUE, faiss |-> "corrupt", pkl |-> "absent"]

\* the texts a request carries besides the question: the submitted answer
\* and the retrieved context
RequestTexts(req) == {req.a.s, req.ctx}

\* C21: the grading request of each pair takes as input the reference
\* answer synthesized for that pair.
GradingTakesReference ==
    (calls # <<>> /\ calls[Len(calls)].op = "grade") =>
        ideal \in RequestTexts(calls[Len(calls)])

\* C22: the admin operations (usage statistics of a key, generation of a
\* key) succeed only for callers that hold admin privileges, and every key
\* in existence was loaded at start-up or generated by an admin caller.
AdminOnly ==
    /\ (aresp.op \in {"usage", "generate"} /\ aresp.status = 200) =>
           aresp.caller \in admins
    /\ \A key \in DOMAIN api_keys :
           api_keys[key].origin = "loaded" \/ api_keys[key].origin \in admins

\* C23: in every generate_questions call that reaches retrieval,
\* max(6,k-2) <= k' <= min(12,k+4), 16 <= fetch_k' <= 24, the strategy is
\* one of similarity, mmr and threshold, and a score threshold, within
\* [0.3, 0.7], is passed exactly when the strategy is threshold.
RetrievalParameters ==
    gpc = "retrieving" =>
        /\ greq.k >= 6 /\ greq.k >= gk - 2
        /\ greq.k <= 12 /\ greq.k <= gk + 4
        /\ greq.fetch_k >= 16 /\ greq.fetch_k <= 24
        /\ greq.search_type \in {"similarity", "mmr", "similarity_score_threshold"}
        /\ (greq.threshold # NoThreshold) <=> (greq.search_type = "similarity_score_threshold")
        /\ greq.threshold # NoThreshold => (greq.threshold >= 30 /\ greq.threshold <= 70)

RetrievalParametersWitness ==
    /\ gpc = "retrieving"
    /\ gk = 8
    /\ greq.k = 12
    /\ greq.fetch_k = 16
    /\ greq.search_type = "similarity_score_threshold"
    /\ greq.threshold = 70

\* C24: the chunks of the generation context are a reordering of a
\* sub-multiset of the retrieved chunks, of size min(k', number retrieved):
\* k' sampled without replacement when more than k' were retrieved, all of
\* them otherwise.
ContextIsSample ==
    gpc = "prompting" =>
        /\ Len(gcontext) = IF Len(gdocs.docs) > gdocs.random_k
                           THEN gdocs.random_k ELSE Len(gdocs.docs)
        /\ \A c \in Chunks : Count(gcontext, c) <= Count(gdocs.docs, c)
        /\ Len(gdocs.docs) <= gdocs.random_k =>
               \A c \in Chunks : Count(gcontext, c) = Count(gdocs.docs, c)

ContextIsSampleWitness ==
    /\ gpc = "prompting"
    /\ Len(gdocs.docs) = 7
    /\ gdocs.random_k = 6
    /\ Len(gcontext) = 6
    /\ gcontext[1] = "c2"

\* the order of the requests of one pair
PairStages == <<"retrieve", "ideal", "grade">>

\* C25: evaluate_answers processes the pairs strictly in sequence: for each
\* pair the retrieval (k = 6), then the reference-answer call, then the
\* grading call, all before any call of the next pair; a batch of m pairs in
\* which nothing fails makes m retrievals and 2m generation calls.
PairsInSequence ==
    /\ \A j \in 1..Len(calls) :
          /\ ((j - 1) \div 3) + 1 <= Len(qas)
          /\ calls[j].op = PairStages[((j - 1) % 3) + 1]
          /\ calls[j].q = qas[((j - 1) \div 3) + 1].q
          /\ calls[j].op = "retrieve" => calls[j].k = 6
    /\ epc = "done" =>
          /\ Cardinality({j \in 1..Len(calls) : calls[j].op = "retrieve"}) = Len(qas)
          /\ Cardinality({j \in 1..Len(calls) : calls[j].op # "retrieve"}) = 2 * Len(qas)

PairsInSequenceWitness ==
    /\ epc = "done"
    /\ Len(qas) = 2
    /\ qas[1].q # qas[2].q
    /\ Len(calls) = 6
    /\ Len(results) = 2

\* C26: for any integer n generate_questions works with
\* n' = max(1, min(10, n)): n' is the count asked of the generation service
\* and the number of placeholders, the returned list has at most n' items
\* and is, on the main path, the first n' candidates that survived
\* deduplication, in their order.
CountClamped ==
    /\ gpc # "idle" =>
          gn = IF gn0 < 1 THEN 1 ELSE IF gn0 > 10 THEN 10 ELSE gn0
    /\ greq.op \in {"generate", "fb_generate"} => greq.n = gn
    /\ gpc = "returned" => Len(gresult) <= gn
    /\ gpath \in {"fallback_placeholder", "ultimate_placeholder"} => Len(gresult) = gn
    /\ gpath = "main" =>
          LET survivors == EnsureQuestionDiversity(ParseQuestions(graw)) IN
          gresult = SubSeq(survivors, 1, IF gn < Len(survivors) THEN gn ELSE Len(survivors))

CountClampedWitness ==
    /\ gpc = "returned"
    /\ gpath = "main"
    /\ gn0 = 0
    /\ Len(EnsureQuestionDiversity(ParseQuestions(graw))) = 2
    /\ Len(gresult) = 1

\* C27: the interval k' is drawn from is non-empty exactly when
\* 2 <= k <= 14, and then 6 <= k' <= 12 < 16 <= fetch_k'; for any other k
\* the draw raises before any retrieval or generation request and outside
\* the fallback handler, so the error reaches the caller.
DrawOfK ==
    /\ \A k \in -1..17 : (RandomKLow(k) <= RandomKHigh(k)) <=> (2 <= k /\ k <= 14)
    /\ gpc = "retrieving" =>
          /\ 2 <= gk /\ gk <= 14
          /\ 6 <= greq.k /\ greq.k <= 12
          /\ 16 <= greq.fetch_k
          /\ greq.k < greq.fetch_k
    /\ (gpc # "idle" /\ (gk < 2 \/ gk > 14)) =>
          /\ gpc = "raised"
          /\ gerr = "value"
          /\ gcalls = <<>>
          /\ gpath = "none"
    /\ (gpc # "idle" /\ 2 <= gk /\ gk <= 14) => gerr # "value"

DrawOfKWitness ==
    /\ gpc = "raised"
    /\ gerr = "value"
    /\ gk = 15
    /\ gcalls = <<>>

\* ------------------------------------------------------------------------
\* The score of a payload without a score key (lines 74-81)
\* ------------------------------------------------------------------------

\* the payload parsed to an object and a result was recorded for it
ObjectGraded == Graded /\ epc = "done" /\ ~ParseFailed /\ parsed.t = "dict"

\* a str that float() rejects
NonNumericString(v) ==
    v.t = "str" /\ \A tok \in NumericTexts : v.s # <<tok>>

\* the score value is there and is null, a non-numeric string, a list or
\* an object
PresentNotNumber(v) ==
    v.t \in {"none", "list", "dict"} \/ NonNumericString(v)

\* C28 as stated: an object without a score key is recorded with score 1,
\* and an absent score is recorded only when the score value is present but
\* not coercible to a number (null, a non-numeric string, a list or object)
\* or when parsing failed.
AbsentOnlyWhenNotNumber ==
    (Graded /\ epc = "done") =>
        LET sc == results[Len(results)].score
            ps == parsed.d["score"]
        IN  /\ (ObjectGraded /\ ps = Missing) => sc = Val("int", 1, <<>>)
            /\ sc = None => (ParseFailed \/ PresentNotNumber(ps))

\* C28 amended: an object without a score key is recorded with score 1, and
\* an absent score is recorded only when parsing failed or the score value
\* is present and is null, a non-numeric string, a list, an object, or a
\* number that float() holds as inf or nan (1e999, NaN).
AbsentOnlyWhenNotInteger ==
    (Graded /\ epc = "done") =>
        LET sc == results[Len(results)].score
            ps == parsed.d["score"]
        IN  /\ (ObjectGraded /\ ps = Missing) => sc = Val("int", 1, <<>>)
            /\ sc = None => (ParseFailed \/ PresentNotNumber(ps) \/ ps = NonFinite)
            /\ (ParseFailed \/ PresentNotNumber(ps) \/ ps = NonFinite) => sc = None

AbsentOnlyWhenNotIntegerWitness ==
    /\ ObjectGraded
    /\ parsed.d["score"] = Missing
    /\ results[Len(results)].score = Val("int", 1, <<>>)

\* ------------------------------------------------------------------------
\* _ensure_question_diversity on lists (lines 193-214)
\* ------------------------------------------------------------------------

\* word-set Jaccard similarity above 0.7, on the lower-case words
TooSimilar(q1, q2) == 10 * CommonWords(q1, q2) > 7 * AllWords(q1, q2)

\* the elements of s at the positions of K, in the order of s
RECURSIVE KeptAt(_, _, _)
KeptAt(s, K, i) ==
    IF i > Len(s) THEN <<>>
    ELSE (IF i \in K THEN <<s[i]>> ELSE <<>>) \o KeptAt(s, K, i + 1)

\* the output is the candidates at the positions K: the first one is
\* kept, no two kept ones are similar, every dropped one is similar to one
\* kept before it
GreedySelection(K) ==
    /\ dunique = KeptAt(dquestions, K, 1)
    /\ dquestions # <<>> => 1 \in K
    /\ \A i \in K : \A j \in K :
           i # j => ~TooSimilar(dquestions[i], dquestions[j])
    /\ \A i \in (1..Len(dquestions)) \ K :
           \E j \in K : j < i /\ TooSimilar(dquestions[j], dquestions[i])

\* C29: the output of _ensure_question_diversity is an order-preserving
\* subsequence of the input that contains the first candidate, no two of
\* its questions are similar (Jaccard > 0.7), every dropped candidate is
\* similar to a question kept before it, and the operation returns its own
\* output unchanged.
DiversityOfLists ==
    /\ [](fpc = "deduped" => \E K \in SUBSET (1..Len(dquestions)) : GreedySelection(K))
    /\ [][fpc' = "deduped again" => dunique' = dunique]_vars

\* three candidates similar in a chain: the middle one is dropped, the last
\* one is kept although it is similar to the dropped one, and the second
\* call has returned
DiversityOfListsWitness ==
    /\ fpc = "deduped again"
    /\ dquestions = <<Phrase(1, 4, TRUE), Phrase(1, 5, FALSE), Phrase(2, 5, FALSE)>>
    /\ dunique = <<Phrase(1, 4, TRUE), Phrase(2, 5, FALSE)>>

\* ------------------------------------------------------------------------
\* The reference answer and the submitted answer (lines 56-72, 83-89)
\* ------------------------------------------------------------------------

\* both calls have ended
BothEnded == Ended /\ prev.epc # "none"

\* the retrieval and reference-answer requests among cs, in their order
RECURSIVE ReferenceRequests(_)
ReferenceRequests(cs) ==
    IF cs = <<>> THEN <<>>
    ELSE (IF Head(cs).op \in {"retrieve", "ideal"} THEN <<Head(cs)>> ELSE <<>>)
         \o ReferenceRequests(Tail(cs))

\* the reference answers of the list a call hands to its caller: the list
\* it built when it returned, nothing when it raised
ReferenceAnswers(pc, rs) ==
    IF pc = "done" THEN [i \in 1..Len(rs) |-> rs[i].ideal_answer] ELSE <<>>

\* C30: two calls that differ only in the submitted answers issue the same
\* retrieval and reference-answer requests and record the same reference
\* answers; the submitted answer reaches only the grading request, as ""
\* when it is empty or missing, and is recorded unchanged.
ReferenceIndependentOfAnswer ==
    /\ BothEnded =>
          /\ ReferenceRequests(calls) = ReferenceRequests(prev.calls)
          /\ ReferenceAnswers(epc, results) = ReferenceAnswers(prev.epc, prev.results)
    /\ \A j \in 1..Len(calls) :
          /\ calls[j].op # "grade" => calls[j].a = None
          /\ calls[j].op = "grade" =>
                 /\ calls[j].a.t = "str"
                 /\ calls[j].a.s = IF qas[((j - 1) \div 3) + 1].a = None THEN <<>>
                                   ELSE qas[((j - 1) \div 3) + 1].a.s
    /\ \A i \in 1..Len(results) : results[i].answer = qas[i].a

\* on the pairs both calls went through, the requests for the reference
\* answer and the reference answers are the same
ReferenceAgreesWhereBothRan ==
    BothEnded =>
        /\ \/ IsPrefix(ReferenceRequests(calls), ReferenceRequests(prev.calls))
           \/ IsPrefix(ReferenceRequests(prev.calls), ReferenceRequests(calls))
        /\ \A i \in 1..Min(Len(results), Len(prev.results)) :
               results[i].ideal_answer = prev.results[i].ideal_answer

====
